---- MODULE Spec2Model ----
(***************************************************************************)
(* Speedball 2 sound player: the sound bank, the sample channel, the       *)
(* tremolo/vibrato effect runner, the sequence interpreter and the         *)
(* 50 Hz frame metering of SoundChannel::fill_buffer, as a state machine.  *)
(*                                                                         *)
(* One SoundChannel is modelled.  The audio callback is split at the       *)
(* points where the source loops: LoopIter* is one pass of the while loop  *)
(* of fill_buffer up to the call of Sequence::update, EvalCont / EvalDone  *)
(* / EvalStop / EvalPanic are the passes of update's dispatch loop,        *)
(* FillLeftover is the code after the while loop.  The user interface      *)
(* acts only while the callback is idle (both run under the mutex that     *)
(* wraps the synth).                                                       *)
(*                                                                         *)
(* Numbers.  usize/isize values are kept as plain integers; a value that   *)
(* has wrapped below zero is kept as its negative representative (-1 is    *)
(* 2^64 - 1).  f32 phases are fixed point, in units of 1/PhaseDen source   *)
(* samples; volumes are in units of 1/MAX_VOLUME.                          *)
(***************************************************************************)
EXTENDS Integers, Sequences, FiniteSets, TLC

----------------------------------------------------------------------------
(* Bounds of the model *)

\* Sample rates are the multiples 50, 100, ... 50 * MaxRateMul.
MaxRateMul == 2
\* Longest buffer handed to one fill_buffer call.
MaxFill == 2
\* Output samples rendered in one behaviour.
MaxPos == 8
\* Deepest loop_stack the model follows (the Vec itself is unbounded).
MaxStack == 3
\* Fixed-point denominator of phase.
PhaseDen == 256
\* Synth.max_len of a new synth, in half batches of the offline render (3.0 s
\* in the source).
InitMaxLen == 3

\* Bend.pause and Bend.length of the bends drawn for the effect runner (u8 in
\* the source), and the calls of the runner followed.
MaxPause == 1
MaxBendLen == 2
MaxCalls == 5
\* The calls of Synth::route in one run.
MaxRoutes == 2
\* The longest stream of a source handed to write_wav, in frames.
MaxStream == 4
\* The calls one buffer is split into.
MaxSplits == 4

----------------------------------------------------------------------------
(* Program constants *)

MAX_VOLUME == 64
FRAMES_PER_SECOND == 50
InstrumentSIZE == 14
\* 1 / CLOCK_INTERVAL_S, the PAL clock in Hz.
ClockHz == 3546891
TempoDividend == 750
NumVoices == 4
NUM_SEQUENCES == 78
NUM_INSTRUMENTS == 43
EQUILIBRIUM == 0
U16Modulus == 65536

OpSetVol == 128
OpRestart == 136
OpSetLen == 140
OpRest == 144
OpTempo == 148
OpSetEffect == 156
OpLoopFlags == 168
OpStop == 172
OpCall == 176
OpReturn == 180
OpTransRel == 184
OpTransAbs == 188
OpFor == 192
OpNext == 196
OpSetInstr == 208
OpJump == 212
\* 0x84, one of the opcodes the interpreter does not implement.
OpUnknown84 == 132
\* 0xd8, another one.
OpUnknownD8 == 216

----------------------------------------------------------------------------
(* Option<T> as a sequence of length at most one *)

None == << >>
Some(x) == << x >>
IsSome(o) == o # << >>
Unwrap(o) == o[1]

----------------------------------------------------------------------------
(* Static tables of sound_data.rs *)

OCTAVE_SIZE == 48
PitchesLen == 336
\* Period ticks per quarter-semitone index, falling with the index.
PITCHES(i) == 65000 - 100 * i

Bend(rate, pause, length) == [rate |-> rate, pause |-> pause, length |-> length]
NoBend == Bend(0, 0, 0)
EFFECTS ==
  << [tremolos |-> << NoBend, NoBend >>,
      vibratos |-> << NoBend, NoBend, NoBend >>],
     [tremolos |-> << Bend(-2, 1, 2), NoBend >>,
      vibratos |-> << Bend(10, 0, 4), NoBend, NoBend >>],
     [tremolos |-> << Bend(3, 0, 1), Bend(-3, 0, 1) >>,
      vibratos |-> << Bend(-5, 1, 2), Bend(7, 0, 1), NoBend >>] >>
\* EFFECTS is indexed from 0 in the source.
EffectAt(i) == EFFECTS[i + 1]
NumEffects == Len(EFFECTS)

----------------------------------------------------------------------------
(* The bank image *)

\* Big-endian encodings used to lay out the image.
WordBytes(x) == << x \div 256, x % 256 >>
LongBytes(x) == << 0, 0, x \div 256, x % 256 >>
I8(b) == IF b >= 128 THEN b - 256 ELSE b

\* Instrument records: <<one-shot word, loop_offset, sample_len, sample offset, base_octave>>
\* (the sample offset is relative to the sample area).
InstrumentRecords ==
  << << 0, 0, 2, 0, 0 >>,
     << 1, 0, 1, 4, 0 >>,
     << 0, 2, 2, 6, 0 >> >>

SampleBytes == << 64, 192, 32, 224,   64, 192,   16, 48, 208, 240 >>

\* The sequences of the bank.  Sequence 0 is the empty sequence.
Programs ==
  << << OpStop >>,
     \* 1: tempo, length, instrument, volume, one note, stop
     << OpTempo, 250, OpSetLen, 1, OpSetInstr, 0, OpSetVol, 40, 2, OpStop >>,
     \* 2: for loop around a volume change
     << OpFor, 2, OpSetVol, 10, OpNext, OpStop >>,
     \* 3: nested calls
     << OpCall, 4, OpSetVol, 30, OpStop >>,
     \* 4: called by 3, calls 5
     << OpSetVol, 20, OpCall, 5, OpReturn >>,
     \* 5: leaf
     << OpSetInstr, 1, OpReturn >>,
     \* 6: return on an empty stack, after a one-beat note
     << OpTempo, 255, OpSetLen, 1, 3, OpReturn >>,
     \* 7: next on an empty stack
     << OpNext >>,
     \* 8: an unimplemented opcode after a note
     << OpTempo, 255, OpSetLen, 1, 4, OpUnknown84, 5, OpStop >>,
     \* 9: a note, then restart
     << OpTempo, 255, OpSetLen, 1, OpSetInstr, 2, 6, OpRestart, 7, OpStop >>,
     \* 10: vibrato and tremolo over a four-frame note
     << OpSetEffect, 1, OpTempo, 255, OpSetLen, 2, 8, OpStop >>,
     \* 11: looping effect
     << OpSetEffect, 2, OpLoopFlags, 3, OpTempo, 255, OpSetLen, 2, 9, OpStop >>,
     \* 12: tempo 0
     << OpTempo, 0, OpStop >>,
     \* 13: call past the sequence table
     << OpCall, 200 >>,
     \* 14: transposition below the pitch table
     << OpTransAbs, 156, OpTempo, 255, OpSetLen, 1, 1, OpStop >>,
     \* 15: return inside a for loop
     << OpFor, 2, OpReturn >>,
     \* 16: note, rest, note with relative transposition
     << OpTempo, 255, OpSetLen, 1, 5, OpRest, OpTransRel, 2, 5, OpStop >>,
     \* 17: a note before any tempo (note_len 0)
     << 10, OpStop >>,
     \* 18: instrument past the instrument table
     << OpSetInstr, 9, 3, OpStop >>,
     \* 19: effect past the effect table
     << OpSetEffect, 200, OpStop >>,
     \* 20: for loop of count 0 inside a call
     << OpCall, 21, OpStop >>,
     << OpFor, 0, OpSetVol, 5, OpNext, OpReturn >>,
     \* 22: restart at the start address
     << OpRestart >>,
     \* 23: jump to itself
     << OpJump, 23 >>,
     \* 24: for loop around a note
     << OpTempo, 255, OpSetLen, 1, OpFor, 1, 12, OpNext, OpStop >>,
     \* 25: a jump past the sequence table
     << OpJump, 99 >>,
     \* 26: another unimplemented opcode, after a note on a looping instrument
     << OpTempo, 255, OpSetLen, 1, 4, OpUnknownD8 >>,
     \* 27: the effect of 10 over a six-frame note
     << OpSetEffect, 1, OpTempo, 255, OpSetLen, 3, 8, OpStop >>,
     \* 28: two notes under a looping effect
     << OpSetEffect, 2, OpLoopFlags, 1, OpTempo, 255, OpSetLen, 1, 9, 11, OpStop >>,
     \* 29: a rest before any tempo (note_len 0)
     << OpRest, OpStop >>,
     \* 30: a rest under an instrument that loops from offset 2
     << OpTempo, 255, OpSetLen, 1, OpSetInstr, 2, 6, OpRest, OpStop >>,
     \* 31: a for loop with an empty body
     << OpFor, 2, OpNext, OpStop >>,
     \* 32: the image ends inside an operand
     << OpSetInstr, 1, OpSetVol >> >>

NumSequences == Len(Programs)
NumInstruments == Len(InstrumentRecords)

SeqTableOffset == 8
InstrTableOffset == SeqTableOffset + 4 * NumSequences
SampleBase == InstrTableOffset + InstrumentSIZE * NumInstruments
ProgBase == SampleBase + Len(SampleBytes)

RECURSIVE ProgAddr(_)
ProgAddr(k) == IF k = 0 THEN ProgBase ELSE ProgAddr(k - 1) + Len(Programs[k])

RECURSIVE SeqTableBytes(_)
SeqTableBytes(k) ==
  IF k = 0 THEN << >> ELSE SeqTableBytes(k - 1) \o LongBytes(ProgAddr(k - 1))

InstrBytes(r) ==
  WordBytes(r[1]) \o WordBytes(r[2]) \o WordBytes(r[3])
    \o LongBytes(SampleBase + r[4]) \o LongBytes(r[5])

RECURSIVE InstrTableBytes(_)
InstrTableBytes(k) ==
  IF k = 0 THEN << >> ELSE InstrTableBytes(k - 1) \o InstrBytes(InstrumentRecords[k])

RECURSIVE ProgramBytes(_)
ProgramBytes(k) == IF k = 0 THEN << >> ELSE ProgramBytes(k - 1) \o Programs[k]

Image ==
  LongBytes(SeqTableOffset) \o LongBytes(InstrTableOffset)
    \o SeqTableBytes(NumSequences) \o InstrTableBytes(NumInstruments)
    \o SampleBytes \o ProgramBytes(NumSequences)

----------------------------------------------------------------------------
(* Utilities and the bank parser *)

\* data[addr], addresses counted from 0.
ByteAt(data, addr) == data[addr + 1]
InData(data, addr) == addr >= 0 /\ addr < Len(data)

word(data, addr) == ByteAt(data, addr) * 256 + ByteAt(data, addr + 1)

long(data, addr) ==
  ByteAt(data, addr) * 16777216 + ByteAt(data, addr + 1) * 65536
    + ByteAt(data, addr + 2) * 256 + ByteAt(data, addr + 3)

InstrumentNew(data, at) ==
  [is_one_shot |-> word(data, at) = 1,
   loop_offset |-> word(data, at + 2),
   sample_len |-> word(data, at + 4),
   sample_addr |-> long(data, at + 6),
   base_octave |-> long(data, at + 10)]

SoundBankNew(data, num_sequences, num_instruments) ==
  [data |-> data,
   sequences |-> [idx \in 1..num_sequences |->
                    long(data, long(data, 0) + (idx - 1) * 4)],
   instruments |-> [idx \in 1..num_instruments |->
                    InstrumentNew(data, long(data, 4) + (idx - 1) * InstrumentSIZE)]]


----------------------------------------------------------------------------
VARIABLES
  bank,              \* the SoundBank every channel shares (Arc<SoundBank>)
  sample_channel,    \* SoundChannel.sample_channel: a SampleChannel record
  sequence,          \* SoundChannel.sequence: Option<Sequence>
  samples_remaining, \* SoundChannel.samples_remaining
  options,           \* SoundChannel.options
  sample_rate,       \* the stream's sample rate, fixed when the stream is built
  overflow_checks,   \* TRUE for a build with integer overflow checks (debug)
  pc,                \* where the audio callback is: "idle", "loop", "eval", "panicked"
  data_len,          \* length of the part of the buffer still to be filled
  pos,               \* history: output samples rendered since the latest user edit
  tick_log,          \* history: sample offsets at which a frame tick was delivered
  seq_tick,          \* history: frame ticks the attached sequence has received
  last_done,         \* history: the opcode that last ended a dispatch, its tick and note_len
  stack_log,         \* history: for each loop_stack entry, who pushed it
  last_eval,         \* history: the latest opcode evaluated and what it did
  out_log,           \* history: the samples rendered by the latest sample-channel fill
  ui,                \* the user's position: "setup", "instr", "seq", "stopped"
  played,            \* history: the instrument the latest play_instr triggered
  synth,             \* the live Synth: channels, stereo, play_mode, max_len (None while unused)
  num_channels,      \* the stream's channel count, fixed when the stream is built
  data,              \* history: the output buffer the latest Synth fill wrote
  tmp_log,           \* history: the scratch buffer of each channel in the latest Synth fill
  clone,             \* the Synth of the offline render thread and its render (None while there is none)
  routed,            \* history: the calls of Synth::route so far
  file,              \* the bank file read and the counts that go with it (None while unused)
  mutex,             \* the Mutex around the live Synth: "free", "audio", "ui", "poisoned"
  ui_pc,             \* where the UI thread is with an edit: "idle", "editing", "edited"
  held,              \* history: the fills done under the callback's current hold of the mutex
  fx,                \* an Effect and its EffectState stepped on their own (None while unused)
  wav,               \* a run of cpal_wrapper::write_wav and its source (None while there is none)
  split              \* a SoundChannel rendered by a series of fill_buffer calls (None while unused)

\* The variables of the Synth around the channel.
synth_vars == << synth, num_channels, data, tmp_log, clone, routed >>

lock_vars == << mutex, ui_pc, held >>

vars ==
  << bank, sample_channel, sequence, samples_remaining, options, sample_rate,
     overflow_checks, pc, data_len, pos, tick_log, seq_tick, last_done,
     stack_log, last_eval, out_log, ui, played, synth, num_channels, data,
     tmp_log, clone, routed, file, fx, wav, split, mutex, ui_pc, held >>

----------------------------------------------------------------------------
(* SampleChannel *)

SampleChannelNew ==
  [instr |-> None,
   volume |-> MAX_VOLUME,
   volume_adjust |-> 0,
   pitch |-> 48 * 4,
   pitch_adjust |-> 0,
   phase |-> 0,
   lerp |-> TRUE]

play(ch, instr) == [ch EXCEPT !.instr = Some(instr), !.phase = 0]

\* stop leaving the voice as it is.
stopLooping(ch) == ch

stop(ch) ==
  IF IsSome(ch.instr)
    THEN [ch EXCEPT !.instr = Some([Unwrap(ch.instr) EXCEPT !.is_one_shot = TRUE])]
    ELSE ch

\* stop_hard leaving the instrument in place.
stop_hardKeep(ch) == ch

stop_hard(ch) == [ch EXCEPT !.instr = None]

stop_loop(ch) ==
  IF IsSome(ch.instr) /\ Unwrap(ch.instr).loop_offset = 0 THEN stop_hard(ch) ELSE ch

\* calc_time_step: PeriodTick is the period in ticks (the source multiplies it
\* by CLOCK_INTERVAL_S), PitchIndexPanics says when the table lookup panics.
\* The index base_note + self.pitch is a usize sum: a pitch that wrapped below
\* zero overflows it in a checked build and wraps back in an unchecked one.
PitchIndex(ch) ==
  (Unwrap(ch.instr).base_octave + 1) * OCTAVE_SIZE + ch.pitch

PitchIndexPanics(ch) ==
  \/ ch.pitch < 0 /\ overflow_checks
  \/ PitchIndex(ch) < 0
  \/ PitchIndex(ch) >= PitchesLen

PeriodTick(ch) == (PITCHES(PitchIndex(ch)) + ch.pitch_adjust) % U16Modulus

\* step = 1 / (time_step * sample_rate), in phase units (period > 0).
StepUnits(period, rate) == (PhaseDen * ClockHz) \div (period * rate)

\* (sample_len * 2 - loop_offset) in u16 arithmetic.
LoopSpan(instrument) ==
  LET m == instrument.sample_len * 2
      mw == m % U16Modulus
      d == mw - instrument.loop_offset
  IN  [panic |-> overflow_checks /\ (m >= U16Modulus \/ d < 0),
       span |-> d % U16Modulus]

\* The sample value at phase, scaled by PhaseDen.
SampleValue(instrument, phase, lerp) ==
  LET mem == bank.data
      idx_int == phase \div PhaseDen
      at == instrument.sample_addr + idx_int
      right_idx == at + 1
      end == instrument.sample_addr + instrument.sample_len * 2
      x == phase % PhaseDen
  IN  IF ~InData(mem, at) THEN [panic |-> TRUE, val |-> 0]
      ELSE IF ~lerp THEN [panic |-> FALSE, val |-> I8(ByteAt(mem, at)) * PhaseDen]
      ELSE IF right_idx = end
        THEN IF instrument.is_one_shot
               THEN [panic |-> FALSE, val |-> I8(ByteAt(mem, at)) * (PhaseDen - x)]
               ELSE IF ~InData(mem, instrument.sample_addr + instrument.loop_offset)
                 THEN [panic |-> TRUE, val |-> 0]
                 ELSE [panic |-> FALSE,
                       val |-> I8(ByteAt(mem, at)) * (PhaseDen - x)
                               + I8(ByteAt(mem, instrument.sample_addr
                                                  + instrument.loop_offset)) * x]
        ELSE IF ~InData(mem, right_idx) THEN [panic |-> TRUE, val |-> 0]
        ELSE [panic |-> FALSE,
              val |-> I8(ByteAt(mem, at)) * (PhaseDen - x)
                      + I8(ByteAt(mem, right_idx)) * x]

\* One pass of the per-sample loop of SampleChannel::fill_buffer:
\* "drop" (a one-shot ran out), "panic", or "sample" with the new phase and value.
Sampled(p2, sv) ==
  IF p2 < 0 \/ sv.panic
    THEN [kind |-> "panic", phase |-> p2, val |-> 0]
    ELSE [kind |-> "sample", phase |-> p2, val |-> sv.val]

SampleAt(instrument, p2, lerp) == Sampled(p2, SampleValue(instrument, p2, lerp))

Wrapped(instrument, p1, ls, lerp) ==
  IF ls.panic THEN [kind |-> "panic", phase |-> p1, val |-> 0]
  ELSE SampleAt(instrument, p1 - ls.span * PhaseDen, lerp)

\* SampleStep with the one-shot drop left out: the end of the sample wraps.
SampleStepNoDrop(instrument, phase, step, lerp) ==
  IF (phase + step) \div PhaseDen >= instrument.sample_len * 2
    THEN Wrapped(instrument, phase + step, LoopSpan(instrument), lerp)
    ELSE SampleAt(instrument, phase + step, lerp)

SampleStep(instrument, phase, step, lerp) ==
  IF (phase + step) \div PhaseDen >= instrument.sample_len * 2
    THEN IF instrument.is_one_shot
           THEN [kind |-> "drop", phase |-> phase + step, val |-> 0]
           ELSE Wrapped(instrument, phase + step, LoopSpan(instrument), lerp)
    ELSE SampleAt(instrument, phase + step, lerp)

\* The per-sample loop over n output samples, from the state st =
\* [ch, panic, out]; out collects vol * val (the source divides by 128).
AfterSample(st, r, vol) ==
  IF r.kind = "drop"
    THEN [st EXCEPT !.ch = [st.ch EXCEPT !.instr = None, !.phase = r.phase]]
  ELSE IF r.kind = "panic"
    THEN [st EXCEPT !.panic = TRUE]
  ELSE [st EXCEPT !.ch = [st.ch EXCEPT !.phase = r.phase],
                  !.out = Append(st.out, vol * r.val)]

RECURSIVE SampleLoop(_, _, _, _)
SampleLoop(st, step, vol, n) ==
  IF n = 0 \/ st.panic \/ ~IsSome(st.ch.instr) THEN st
  ELSE SampleLoop(AfterSample(st,
                              SampleStep(Unwrap(st.ch.instr), st.ch.phase, step,
                                         st.ch.lerp),
                              vol),
                  step, vol, n - 1)

Silence(n) == [i \in 1..n |-> 0]

\* SampleChannel::fill_buffer over n output samples: the channel afterwards,
\* whether it panicked, and the n samples written.
PadOut(r, n) == [r EXCEPT !.out = r.out \o Silence(n - Len(r.out))]

SampleFill(ch, rate, n) ==
  IF IsSome(ch.instr) /\ PitchIndexPanics(ch)
    THEN [ch |-> ch, panic |-> TRUE, out |-> Silence(n)]
  ELSE IF ~IsSome(ch.instr) THEN [ch |-> ch, panic |-> FALSE, out |-> Silence(n)]
  ELSE PadOut(SampleLoop([ch |-> ch, panic |-> FALSE, out |-> << >>],
                         StepUnits(PeriodTick(ch), rate),
                         ch.volume + ch.volume_adjust, n),
              n)

----------------------------------------------------------------------------
(* Tremolo / vibrato effect state *)

BendStateNew == [pause_count |-> 0, length_count |-> 0]

BendStateFrom(bend) == [pause_count |-> bend.pause, length_count |-> bend.length]

EffectStateNew ==
  [tremolos |-> << BendStateNew, BendStateNew >>,
   vibratos |-> << BendStateNew, BendStateNew, BendStateNew >>,
   tremolo_loops |-> FALSE,
   vibrato_loops |-> FALSE,
   vol_adjust |-> 0,
   period_adjust |-> 0]

\* A reset that rewinds the bends and leaves the accumulators alone.
EffectStateResetBends(es, effect) ==
  [es EXCEPT !.tremolos = [i \in 1..2 |-> BendStateFrom(effect.tremolos[i])],
             !.vibratos = [i \in 1..3 |-> BendStateFrom(effect.vibratos[i])]]

EffectStateReset(es, effect) ==
  [es EXCEPT !.tremolos = [i \in 1..2 |-> BendStateFrom(effect.tremolos[i])],
             !.vibratos = [i \in 1..3 |-> BendStateFrom(effect.vibratos[i])],
             !.vol_adjust = 0,
             !.period_adjust = 0]

\* StepBends that leaves pause_count at 0 after a bend has fired.
RECURSIVE StepBendsNoRearm(_, _, _)
StepBendsNoRearm(bends, states, i) ==
  IF i > Len(bends) THEN [states |-> states, fired |-> FALSE, rate |-> 0]
  ELSE IF states[i].pause_count > 0
    THEN StepBendsNoRearm(bends,
                   [states EXCEPT ![i].pause_count = states[i].pause_count - 1],
                   i + 1)
  ELSE IF states[i].length_count = 0
    THEN StepBendsNoRearm(bends, states, i + 1)
  ELSE [states |-> [states EXCEPT ![i].length_count = states[i].length_count - 1],
        fired |-> TRUE,
        rate |-> bends[i].rate]

\* StepBends that goes on counting down the pauses of the bends after the one
\* that fired.
RECURSIVE StepBendsOn(_, _, _)
StepBendsOn(bends, states, i) ==
  IF i > Len(bends) THEN [states |-> states, fired |-> FALSE, rate |-> 0]
  ELSE IF states[i].pause_count > 0
    THEN StepBendsOn(bends,
                     [states EXCEPT ![i].pause_count = states[i].pause_count - 1],
                     i + 1)
  ELSE IF states[i].length_count = 0
    THEN StepBendsOn(bends, states, i + 1)
  ELSE [states |-> [j \in 1..Len(states) |->
                      IF j = i
                        THEN [pause_count |-> bends[i].pause,
                              length_count |-> states[i].length_count - 1]
                      ELSE IF j > i /\ states[j].pause_count > 0
                        THEN [states[j] EXCEPT !.pause_count = @ - 1]
                      ELSE states[j]],
        fired |-> TRUE,
        rate |-> bends[i].rate]

\* The for loop of EffectState::step from bend i on: the bend states it leaves,
\* whether a bend fired, and the rate returned.
RECURSIVE StepBends(_, _, _)
StepBends(bends, states, i) ==
  IF i > Len(bends) THEN [states |-> states, fired |-> FALSE, rate |-> 0]
  ELSE IF states[i].pause_count > 0
    THEN StepBends(bends,
                   [states EXCEPT ![i].pause_count = states[i].pause_count - 1],
                   i + 1)
  ELSE IF states[i].length_count = 0
    THEN StepBends(bends, states, i + 1)
  ELSE [states |-> [states EXCEPT ![i].length_count = states[i].length_count - 1,
                                  ![i].pause_count = bends[i].pause],
        fired |-> TRUE,
        rate |-> bends[i].rate]

\* AfterBends that never rewinds the bends.
AfterBendsNever(bends, r, loops) ==
  IF r.fired THEN [states |-> r.states, rate |-> r.rate]
  ELSE [states |-> r.states, rate |-> 0]

\* AfterBends that rewinds the bends whatever the loop flag says.
AfterBendsAlways(bends, r, loops) ==
  IF r.fired THEN [states |-> r.states, rate |-> r.rate]
  ELSE [states |-> [i \in 1..Len(bends) |-> BendStateFrom(bends[i])], rate |-> 0]

AfterBends(bends, r, loops) ==
  IF r.fired THEN [states |-> r.states, rate |-> r.rate]
  ELSE IF loops
    THEN [states |-> [i \in 1..Len(bends) |-> BendStateFrom(bends[i])], rate |-> 0]
    ELSE [states |-> r.states, rate |-> 0]

\* EffectState::step: the bend states afterwards and the delta returned.
EffectStep(bends, bend_states, loops) ==
  AfterBends(bends, StepBends(bends, bend_states, 1), loops)

\* i16 addition: a checked build panics on overflow, an unchecked one wraps.
AddI16(a, b) ==
  LET sum == a + b
      over == sum > 32767 \/ sum < -32768
      wrapped == ((sum + 32768) % U16Modulus) - 32768
  IN  [panic |-> over /\ overflow_checks, val |-> wrapped]

\* Advances the vibrato bends and accumulates period_adjust.
AddPeriod(es, r, a) ==
  [panic |-> a.panic, es |-> [es EXCEPT !.vibratos = r.states, !.period_adjust = a.val]]

TremoloStepped(es, r) == AddPeriod(es, r, AddI16(es.period_adjust, r.rate))

\* step_tremolo driven by the tremolo bends.
step_tremoloOwn(es, effect) ==
  TremoloStepped(es, EffectStep(effect.tremolos, es.tremolos, es.tremolo_loops))

step_tremolo(es, effect) ==
  TremoloStepped(es, EffectStep(effect.vibratos, es.vibratos, es.vibrato_loops))

\* Advances the tremolo bends and accumulates vol_adjust.
AddVol(es, r, a) ==
  [panic |-> a.panic, es |-> [es EXCEPT !.tremolos = r.states, !.vol_adjust = a.val]]

VibratoStepped(es, r) == AddVol(es, r, AddI16(es.vol_adjust, r.rate))

step_vibrato(es, effect) ==
  VibratoStepped(es, EffectStep(effect.tremolos, es.tremolos, es.tremolo_loops))

----------------------------------------------------------------------------
(* Sequence: the command interpreter *)

OptionsNew == [tremolo |-> TRUE, vibrato |-> TRUE, repeats |-> TRUE]

SequenceNew(addr) ==
  [addr |-> addr,
   start_addr |-> addr,
   frames_per_beat |-> 0,
   transposition |-> 0,
   instrument_idx |-> 0,
   note_len |-> 0,
   ttl |-> 0,
   effect |-> EffectAt(0),
   effect_state |-> EffectStateNew,
   loop_stack |-> << >>]

\* What one eval hands back: the EvalResult ("Done", "Cont", "Stop"), or "Panic"
\* when the thread panics inside it, with the sequence and channel it leaves.
Res(res, s, ch) == [res |-> res, seq |-> s, ch |-> ch]

\* An opcode's operand byte, bank.data[self.addr]; reading it is a panic when
\* the address is past the image.
HasOperand(s) == InData(bank.data, s.addr)
Operand(s) == ByteAt(bank.data, s.addr)
Skip(s) == [s EXCEPT !.addr = s.addr + 1]

evalNote(code, s, ch) ==
  LET s1 == [s EXCEPT !.effect_state = EffectStateReset(s.effect_state, s.effect),
                      !.ttl = s.note_len]
      ch1 == [ch EXCEPT !.pitch = code * 4 + s.transposition]
  IN  IF s.instrument_idx >= Len(bank.instruments)
        THEN Res("Panic", s1, ch1)
        ELSE Res("Done", s1, play(ch1, bank.instruments[s.instrument_idx + 1]))

evalSetVol(s, ch) ==
  IF ~HasOperand(s) THEN Res("Panic", s, ch)
  ELSE Res("Cont", Skip(s), [ch EXCEPT !.volume = Operand(s)])

\* evalRestart without the repeats gate.
evalRestartAlways(s, ch, opts) == Res("Cont", [s EXCEPT !.addr = s.start_addr], ch)

evalRestart(s, ch, opts) ==
  IF ~opts.repeats THEN Res("Done", s, ch)
  ELSE Res("Cont", [s EXCEPT !.addr = s.start_addr], ch)

evalSetLen(s, ch) ==
  IF ~HasOperand(s) THEN Res("Panic", s, ch)
  ELSE Res("Cont", [Skip(s) EXCEPT !.note_len = Operand(s) * s.frames_per_beat], ch)

evalRest(s, ch) == Res("Done", s, stop_loop(ch))

evalTempo(s, ch) ==
  IF ~HasOperand(s) \/ Operand(s) = 0 THEN Res("Panic", s, ch)
  ELSE Res("Cont", [Skip(s) EXCEPT !.frames_per_beat = TempoDividend \div Operand(s)], ch)

evalSetEffect(s, ch) ==
  IF ~HasOperand(s) \/ Operand(s) >= NumEffects THEN Res("Panic", s, ch)
  ELSE Res("Cont",
           [Skip(s) EXCEPT !.effect = EffectAt(Operand(s)),
                           !.effect_state = EffectStateNew],
           ch)

evalLoopFlags(s, ch) ==
  IF ~HasOperand(s) THEN Res("Panic", s, ch)
  ELSE Res("Cont",
           [Skip(s) EXCEPT !.effect_state.tremolo_loops = (Operand(s) % 2 = 1),
                           !.effect_state.vibrato_loops = ((Operand(s) \div 2) % 2 = 1)],
           ch)

evalStop(s, ch) == Res("Stop", s, ch)

evalCall(s, ch) ==
  IF ~HasOperand(s) THEN Res("Panic", s, ch)
  ELSE LET s1 == [Skip(s) EXCEPT
                    !.loop_stack = Append(s.loop_stack, [count |-> 0, addr |-> s.addr + 1])]
       IN  IF Operand(s) >= Len(bank.sequences) THEN Res("Panic", s1, ch)
           ELSE Res("Cont", [s1 EXCEPT !.addr = bank.sequences[Operand(s) + 1]], ch)

\* evalReturn reading the top entry without popping it.
evalReturnKeep(s, ch) ==
  IF s.loop_stack = << >> THEN Res("Stop", s, ch)
  ELSE LET top == s.loop_stack[Len(s.loop_stack)]
       IN  IF top.count # 0 THEN Res("Panic", s, ch)
           ELSE Res("Cont", [s EXCEPT !.addr = top.addr], ch)

evalReturn(s, ch) ==
  IF s.loop_stack = << >> THEN Res("Stop", s, ch)
  ELSE LET top == s.loop_stack[Len(s.loop_stack)]
           s1 == [s EXCEPT !.loop_stack = SubSeq(s.loop_stack, 1, Len(s.loop_stack) - 1)]
       IN  IF top.count # 0 THEN Res("Panic", s1, ch)
           ELSE Res("Cont", [s1 EXCEPT !.addr = top.addr], ch)

evalTransRel(s, ch) ==
  IF ~HasOperand(s) THEN Res("Panic", s, ch)
  ELSE IF I8(Operand(s)) = 0
    THEN Res("Cont", [Skip(s) EXCEPT !.transposition = 0], ch)
    ELSE Res("Cont", [Skip(s) EXCEPT !.transposition = s.transposition + I8(Operand(s))], ch)

evalTransAbs(s, ch) ==
  IF ~HasOperand(s) THEN Res("Panic", s, ch)
  ELSE Res("Cont", [Skip(s) EXCEPT !.transposition = I8(Operand(s))], ch)

evalFor(s, ch) ==
  IF ~HasOperand(s) THEN Res("Panic", s, ch)
  ELSE Res("Cont",
           [Skip(s) EXCEPT
              !.loop_stack = Append(s.loop_stack,
                                    [count |-> Operand(s), addr |-> s.addr + 1])],
           ch)

\* evalNext leaving the loop one pass early.
evalNextEarly(s, ch) ==
  IF s.loop_stack = << >> THEN Res("Panic", s, ch)
  ELSE LET n == Len(s.loop_stack)
           top == s.loop_stack[n]
       IN  IF top.count <= 1
             THEN Res("Cont", [s EXCEPT !.loop_stack = SubSeq(s.loop_stack, 1, n - 1)], ch)
             ELSE Res("Cont",
                      [s EXCEPT !.loop_stack[n].count = top.count - 1,
                                !.addr = top.addr],
                      ch)

evalNext(s, ch) ==
  IF s.loop_stack = << >> THEN Res("Panic", s, ch)
  ELSE LET n == Len(s.loop_stack)
           top == s.loop_stack[n]
       IN  IF top.count = 0
             THEN Res("Cont", [s EXCEPT !.loop_stack = SubSeq(s.loop_stack, 1, n - 1)], ch)
             ELSE Res("Cont",
                      [s EXCEPT !.loop_stack[n].count = top.count - 1,
                                !.addr = top.addr],
                      ch)

evalSetInstr(s, ch) ==
  IF ~HasOperand(s) THEN Res("Panic", s, ch)
  ELSE Res("Cont", [Skip(s) EXCEPT !.instrument_idx = Operand(s)], ch)

evalJump(s, ch) ==
  IF ~HasOperand(s) \/ Operand(s) >= Len(bank.sequences) THEN Res("Panic", Skip(s), ch)
  ELSE Res("Cont", [s EXCEPT !.addr = bank.sequences[Operand(s) + 1]], ch)

\* evalUnknown skipping the opcode and an operand and carrying on.
evalUnknownSkip(s, ch) == Res("Cont", Skip(s), ch)

evalUnknown(s, ch) == Res("Stop", s, ch)

\* The opcode dispatch of eval, self.addr already past the opcode byte.
evalCode(code, s, ch, opts) ==
  IF code < 128 THEN evalNote(code, s, ch)
  ELSE CASE code = OpSetVol -> evalSetVol(s, ch)
         [] code = OpRestart -> evalRestart(s, ch, opts)
         [] code = OpSetLen -> evalSetLen(s, ch)
         [] code = OpRest -> evalRest(s, ch)
         [] code = OpTempo -> evalTempo(s, ch)
         [] code = OpSetEffect -> evalSetEffect(s, ch)
         [] code = OpLoopFlags -> evalLoopFlags(s, ch)
         [] code = OpStop -> evalStop(s, ch)
         [] code = OpCall -> evalCall(s, ch)
         [] code = OpReturn -> evalReturn(s, ch)
         [] code = OpTransRel -> evalTransRel(s, ch)
         [] code = OpTransAbs -> evalTransAbs(s, ch)
         [] code = OpFor -> evalFor(s, ch)
         [] code = OpNext -> evalNext(s, ch)
         [] code = OpSetInstr -> evalSetInstr(s, ch)
         [] code = OpJump -> evalJump(s, ch)
         [] OTHER -> evalUnknown(s, ch)

\* Sequence::eval: run a single command.
eval(s, ch, opts) ==
  IF ~InData(bank.data, s.addr) THEN Res("Panic", s, ch)
  ELSE evalCode(ByteAt(bank.data, s.addr), Skip(s), ch, opts)

\* The opcode eval is about to read (-1 when the address is past the image).
NextCode(s) == IF InData(bank.data, s.addr) THEN ByteAt(bank.data, s.addr) ELSE -1

\* The end of Sequence::step_frame once update has reported the sequence as
\* running: the ttl decrement and the effect steps pushed to the channel, as
\* [seq, ch, panic].  usize subtraction: a checked build panics at ttl = 0, an
\* unchecked one wraps.
TtlDecrement(s, ch) ==
  [seq |-> [s EXCEPT !.ttl = s.ttl - 1], ch |-> ch,
   panic |-> s.ttl = 0 /\ overflow_checks]

TremoloPushed(st, t) ==
  [seq |-> [st.seq EXCEPT !.effect_state = t.es],
   ch |-> [st.ch EXCEPT !.pitch_adjust = t.es.period_adjust],
   panic |-> st.panic \/ t.panic]

VibratoPushed(st, v) ==
  [seq |-> [st.seq EXCEPT !.effect_state = v.es],
   ch |-> [st.ch EXCEPT !.volume_adjust = v.es.vol_adjust],
   panic |-> st.panic \/ v.panic]

TremoloOption(st, opts) ==
  IF opts.tremolo
    THEN TremoloPushed(st, step_tremolo(st.seq.effect_state, st.seq.effect))
    ELSE st

VibratoOption(st, opts) ==
  IF opts.vibrato
    THEN VibratoPushed(st, step_vibrato(st.seq.effect_state, st.seq.effect))
    ELSE st

\* step_frame pushing the deltas to the channel before the effect runner has
\* stepped them.
StepEffectsStale(s, ch, opts) ==
  [VibratoOption(TremoloOption(TtlDecrement(s, ch), opts), opts)
     EXCEPT !.ch = [ch EXCEPT !.pitch_adjust = s.effect_state.period_adjust,
                              !.volume_adjust = s.effect_state.vol_adjust]]

StepEffects(s, ch, opts) ==
  VibratoOption(TremoloOption(TtlDecrement(s, ch), opts), opts)

----------------------------------------------------------------------------
(* SoundChannel and the audio callback *)

Rates == { FRAMES_PER_SECOND * k : k \in 1..MaxRateMul }

samples_per_frame == sample_rate \div FRAMES_PER_SECOND

is_active == IsSome(sequence) \/ IsSome(sample_channel.instr)

NoDone == [op |-> "none", tick |-> 0, len |-> 0]
NoTop == [count |-> -1, addr |-> -1]
NoLog == [kind |-> "none", at |-> -1, init |-> -1, passes |-> -1, depth |-> -1]
NoEval ==
  [code |-> -1, at |-> -1, res |-> "none", depth |-> 0, tick |-> 0, pos |-> 0,
   top |-> NoTop, log |-> NoLog]

\* The mutex while nothing contends for it; no effect is stepped on its own,
\* no wave file is written and no channel is rendered in pieces.
NoLock ==
  /\ mutex = "free"
  /\ ui_pc = "idle"
  /\ held = 0
  /\ fx = None
  /\ wav = None
  /\ split = None

\* A single channel driven on its own: there is no Synth around it.
NoSynth ==
  /\ NoLock
  /\ synth = None
  /\ num_channels = 1
  /\ data = << >>
  /\ tmp_log = << >>
  /\ clone = None
  /\ routed = 0

Init ==
  /\ bank = SoundBankNew(Image, NumSequences, NumInstruments)
  /\ sample_channel = SampleChannelNew
  /\ sequence = None
  /\ samples_remaining = 0
  /\ options = OptionsNew
  /\ sample_rate \in Rates
  /\ overflow_checks \in BOOLEAN
  /\ pc = "idle"
  /\ data_len = 0
  /\ pos = 0
  /\ tick_log = << >>
  /\ seq_tick = 0
  /\ last_done = NoDone
  /\ stack_log = << >>
  /\ last_eval = NoEval
  /\ out_log = << >>
  /\ ui = "setup"
  /\ NoSynth
  /\ file = None
  /\ played = None

\* Every edit that sets up or starts a sound starts a new observation window.
\* Offsets are counted from the edit on; a tick delivered at the current sample
\* stays in the log, at offset 0.
NewWindow ==
  /\ pos' = 0
  /\ tick_log' = IF tick_log # << >> /\ tick_log[Len(tick_log)].at = pos
                   THEN << [tick_log[Len(tick_log)] EXCEPT !.at = 0] >>
                   ELSE << >>

\* The checkboxes of Options::ui.
SetOption(name) ==
  /\ pc = "idle" /\ ui = "setup"
  /\ options' = [options EXCEPT ![name] = ~options[name]]
  /\ NewWindow
  /\ UNCHANGED << bank, sample_channel, sequence, samples_remaining, sample_rate,
                  overflow_checks, pc, data_len, seq_tick, last_done, stack_log,
                  last_eval, out_log, ui, played, synth_vars, file, fx, wav, split, lock_vars >>

\* The "Linear interpolation" checkbox of SoundChannel::ui.
SetLerp ==
  /\ pc = "idle" /\ ui = "setup"
  /\ sample_channel' = [sample_channel EXCEPT !.lerp = ~sample_channel.lerp]
  /\ NewWindow
  /\ UNCHANGED << bank, sequence, samples_remaining, options, sample_rate,
                  overflow_checks, pc, data_len, seq_tick, last_done, stack_log,
                  last_eval, out_log, ui, played, synth_vars, file, fx, wav, split, lock_vars >>

\* SoundChannel::play_instr
PlayInstr(k) ==
  /\ pc = "idle" /\ ui = "setup"
  /\ sample_channel' = play(sample_channel, bank.instruments[k + 1])
  /\ ui' = "instr"
  /\ played' = Some(bank.instruments[k + 1])
  /\ NewWindow
  /\ UNCHANGED << bank, sequence, samples_remaining, options, sample_rate,
                  overflow_checks, pc, data_len, seq_tick, last_done, stack_log,
                  last_eval, out_log, synth_vars, file, fx, wav, split, lock_vars >>

\* SoundChannel::play_seq
PlaySeq(seq) ==
  /\ pc = "idle" /\ ui = "setup"
  /\ sequence' = Some(SequenceNew(bank.sequences[seq + 1]))
  /\ ui' = "seq"
  /\ NewWindow
  /\ seq_tick' = 0
  /\ last_done' = NoDone
  /\ stack_log' = << >>
  /\ last_eval' = NoEval
  /\ UNCHANGED << bank, sample_channel, samples_remaining, options, sample_rate,
                  overflow_checks, pc, data_len, out_log, played, synth_vars, file, fx, wav, split, lock_vars >>

\* SoundChannel::stop
StopChannel ==
  /\ pc = "idle" /\ ui \in {"instr", "seq"}
  /\ sample_channel' = stop(sample_channel)
  /\ sequence' = None
  /\ ui' = "stopped"
  /\ UNCHANGED << bank, samples_remaining, options, sample_rate, overflow_checks,
                  pc, data_len, pos, tick_log, seq_tick, last_done, stack_log,
                  last_eval, out_log, played, synth_vars, file, fx, wav, split, lock_vars >>

\* SoundChannel::fill_buffer with d samples of the buffer left to fill: the
\* callback enters it with a buffer of d samples, or is inside its while loop.
Entered(d) ==
  \/ pc = "idle" /\ pos + d <= MaxPos
  \/ pc = "loop" /\ d = data_len

\* The end of one pass of the while loop: the buffer is sliced forward and the
\* next frame boundary is samples_per_frame away.
NextFrame(d) ==
  /\ data_len' = d - samples_remaining
  /\ samples_remaining' = samples_per_frame

\* The chunk up to the frame boundary is rendered (r is what
\* SampleChannel::fill_buffer did): the channel and the history.
ChunkRendered(r) ==
  /\ ~r.panic
  /\ pos' = pos + samples_remaining
  /\ tick_log' = Append(tick_log, [at |-> pos + samples_remaining,
                                    stepped |-> IsSome(sequence)])
  /\ out_log' = r.out

\* The callback thread panics and unwinds; the channel is left as it was.
Panicked ==
  /\ pc' = "panicked"
  /\ UNCHANGED << bank, sample_channel, sequence, samples_remaining, options,
                  sample_rate, overflow_checks, data_len, pos, tick_log,
                  seq_tick, last_done, stack_log, out_log, ui, played, synth_vars, file, fx, wav, split, lock_vars >>

AtFrameBoundary(d) == Entered(d) /\ d >= samples_remaining

RenderedNoSeq(r) ==
  /\ ChunkRendered(r)
  /\ sample_channel' = r.ch

\* A pass of the while loop with no sequence attached.
LoopIterNoSeq(d) ==
  /\ AtFrameBoundary(d)
  /\ sequence = None
  /\ RenderedNoSeq(SampleFill(sample_channel, sample_rate, samples_remaining))
  /\ NextFrame(d)
  /\ pc' = "loop"
  /\ UNCHANGED << bank, sequence, options, sample_rate, overflow_checks,
                  seq_tick, last_done, stack_log, last_eval, ui, played, synth_vars, file, fx, wav, split, lock_vars >>

Stepped(e) ==
  /\ ~e.panic
  /\ sequence' = Some(e.seq)
  /\ sample_channel' = e.ch

RenderedHold(r) ==
  /\ ChunkRendered(r)
  /\ Stepped(StepEffects(Unwrap(sequence), r.ch, options))

\* A pass of the while loop whose step_frame finds ttl > 0: update does
\* nothing, the effects step.
LoopIterHold(d) ==
  /\ AtFrameBoundary(d)
  /\ IsSome(sequence) /\ Unwrap(sequence).ttl # 0
  /\ RenderedHold(SampleFill(sample_channel, sample_rate, samples_remaining))
  /\ NextFrame(d)
  /\ pc' = "loop"
  /\ seq_tick' = seq_tick + 1
  /\ UNCHANGED << bank, options, sample_rate, overflow_checks, last_done,
                  stack_log, last_eval, ui, played, synth_vars, file, fx, wav, split, lock_vars >>

\* A pass of the while loop whose step_frame finds ttl = 0: update enters its
\* dispatch loop.
LoopIterDispatch(d) ==
  /\ AtFrameBoundary(d)
  /\ IsSome(sequence) /\ Unwrap(sequence).ttl = 0
  /\ RenderedNoSeq(SampleFill(sample_channel, sample_rate, samples_remaining))
  /\ seq_tick' = seq_tick + 1
  /\ pc' = "eval"
  /\ data_len' = d
  /\ UNCHANGED << bank, sequence, samples_remaining, options, sample_rate,
                  overflow_checks, last_done, stack_log, last_eval, ui, played, synth_vars, file, fx, wav, split, lock_vars >>

RenderPanics(r) ==
  \/ r.panic
  \/ /\ IsSome(sequence) /\ Unwrap(sequence).ttl # 0
     /\ StepEffects(Unwrap(sequence), r.ch, options).panic

\* A pass of the while loop that panics while rendering or stepping the effects.
LoopIterPanic(d) ==
  /\ AtFrameBoundary(d)
  /\ RenderPanics(SampleFill(sample_channel, sample_rate, samples_remaining))
  /\ last_eval' = last_eval
  /\ Panicked

\* The opcode evaluated, as history.
EvalOf(s, res) ==
  [code |-> NextCode(s), at |-> s.addr, res |-> res,
   depth |-> Len(s.loop_stack), tick |-> seq_tick, pos |-> pos,
   top |-> IF s.loop_stack = << >> THEN NoTop ELSE s.loop_stack[Len(s.loop_stack)],
   log |-> IF stack_log = << >> THEN NoLog ELSE stack_log[Len(stack_log)]]

\* Who pushed each loop_stack entry, and how often Next has looped on it.
StackLogAfter(log, code, at, s, s1) ==
  IF Len(s1.loop_stack) > Len(s.loop_stack)
    THEN Append(log, [kind |-> IF code = OpCall THEN "call" ELSE "for",
                      at |-> at,
                      init |-> s1.loop_stack[Len(s1.loop_stack)].count,
                      passes |-> 0,
                      depth |-> Len(s.loop_stack)])
  ELSE IF Len(s1.loop_stack) < Len(s.loop_stack)
    THEN SubSeq(log, 1, Len(log) - 1)
  ELSE IF code = OpNext /\ log # << >>
    THEN [log EXCEPT ![Len(log)].passes = log[Len(log)].passes + 1]
  ELSE log

Continued(s, r) ==
  /\ r.res = "Cont"
  /\ Len(r.seq.loop_stack) <= MaxStack
  /\ sequence' = Some(r.seq)
  /\ sample_channel' = r.ch
  /\ last_eval' = EvalOf(s, "Cont")
  /\ stack_log' = StackLogAfter(stack_log, NextCode(s), s.addr, s, r.seq)

\* A pass of update's dispatch loop whose eval returns Cont.
EvalCont ==
  /\ pc = "eval"
  /\ Continued(Unwrap(sequence), eval(Unwrap(sequence), sample_channel, options))
  /\ UNCHANGED << bank, samples_remaining, options, sample_rate, overflow_checks,
                  pc, data_len, pos, tick_log, seq_tick, last_done, out_log, ui, played, synth_vars, file, fx, wav, split, lock_vars >>

DoneOp(code) ==
  IF code = OpRest THEN "Rest" ELSE IF code = OpRestart THEN "Restart" ELSE "Note"

\* TtlSet holding the note one tick too long.
TtlSetLong(s) == [s EXCEPT !.ttl = s.note_len + 1]

\* update after its dispatch loop: self.ttl = self.note_len.
TtlSet(s) == [s EXCEPT !.ttl = s.note_len]

Finished(s, r) ==
  /\ r.res = "Done"
  /\ Stepped(StepEffects(TtlSet(r.seq), r.ch, options))
  /\ last_eval' = EvalOf(s, "Done")
  /\ last_done' = [op |-> DoneOp(NextCode(s)), tick |-> seq_tick,
                   len |-> r.seq.note_len]

\* The last pass of the dispatch loop, eval returning Done: update sets ttl,
\* step_frame steps the effects, and the while loop of fill_buffer moves on.
EvalDone ==
  /\ pc = "eval"
  /\ Finished(Unwrap(sequence), eval(Unwrap(sequence), sample_channel, options))
  /\ NextFrame(data_len)
  /\ pc' = "loop"
  /\ UNCHANGED << bank, options, sample_rate, overflow_checks, pos, tick_log,
                  seq_tick, stack_log, out_log, ui, played, synth_vars, file, fx, wav, split, lock_vars >>

Stopped(s, r) ==
  /\ r.res = "Stop"
  /\ sample_channel' = stop_hard(r.ch)
  /\ last_eval' = EvalOf(s, "Stop")

\* The last pass of the dispatch loop, eval returning Stop: update hard-stops
\* the sample channel and fill_buffer detaches the sequence.
EvalStop ==
  /\ pc = "eval"
  /\ Stopped(Unwrap(sequence), eval(Unwrap(sequence), sample_channel, options))
  /\ sequence' = None
  /\ NextFrame(data_len)
  /\ pc' = "loop"
  /\ UNCHANGED << bank, options, sample_rate, overflow_checks, pos, tick_log,
                  seq_tick, last_done, stack_log, out_log, ui, played, synth_vars, file, fx, wav, split, lock_vars >>

EvalPanics(s, r) ==
  /\ \/ r.res = "Panic"
     \/ r.res = "Done" /\ StepEffects(TtlSet(r.seq), r.ch, options).panic
  /\ last_eval' = EvalOf(s, r.res)

\* A pass of the dispatch loop that panics, in eval or in the ttl decrement
\* and effect steps that follow a Done.
EvalPanic ==
  /\ pc = "eval"
  /\ EvalPanics(Unwrap(sequence), eval(Unwrap(sequence), sample_channel, options))
  /\ Panicked

LeftoverRendered(r) ==
  /\ ~r.panic
  /\ sample_channel' = r.ch
  /\ out_log' = r.out

\* The code after the while loop: the leftover is rendered.
FillLeftover(d) ==
  /\ Entered(d) /\ d < samples_remaining
  /\ LeftoverRendered(SampleFill(sample_channel, sample_rate, d))
  /\ samples_remaining' = samples_remaining - d
  /\ pos' = pos + d
  /\ data_len' = 0
  /\ pc' = "idle"
  /\ UNCHANGED << bank, sequence, options, sample_rate, overflow_checks, tick_log,
                  seq_tick, last_done, stack_log, last_eval, ui, played, synth_vars, file, fx, wav, split, lock_vars >>

\* The code after the while loop panics while rendering.
FillLeftoverPanic(d) ==
  /\ Entered(d) /\ d < samples_remaining
  /\ SampleFill(sample_channel, sample_rate, d).panic
  /\ last_eval' = last_eval
  /\ Panicked

Next ==
  \/ \E name \in {"tremolo", "vibrato", "repeats"} : SetOption(name)
  \/ SetLerp
  \/ \E k \in 0..(Len(bank.instruments) - 1) : PlayInstr(k)
  \/ \E seq \in 1..(Len(bank.sequences) - 1) : PlaySeq(seq)
  \/ StopChannel
  \/ \E d \in 0..MaxFill : LoopIterNoSeq(d)
  \/ \E d \in 0..MaxFill : LoopIterHold(d)
  \/ \E d \in 0..MaxFill : LoopIterDispatch(d)
  \/ \E d \in 0..MaxFill : LoopIterPanic(d)
  \/ EvalCont
  \/ EvalDone
  \/ EvalStop
  \/ EvalPanic
  \/ \E d \in 0..MaxFill : FillLeftover(d)
  \/ \E d \in 0..MaxFill : FillLeftoverPanic(d)

Spec == Init /\ [][Next]_vars

----------------------------------------------------------------------------
(* SampleChannel::fill_buffer on its own *)

\* A channel with no sequence, an instrument just triggered, and the callers'
\* buffers handed straight to SampleChannel::fill_buffer.  The sample rates and
\* pitches give steps of 2, 1 and 1/2 source samples per output sample (period
\* 35468 ticks is 1/100 s) as well as steps in between, above 2 (more than the
\* loop of the third instrument, with the period bent down by 8000), and a
\* pitch outside the pitch table.
SampleRates == { FRAMES_PER_SECOND, 2 * FRAMES_PER_SECOND, 4 * FRAMES_PER_SECOND }
SamplePitches == { 48 * 4, 248, 280, 300 }
SamplePitchAdjusts == { 0, 68, -8000 }

Triggered(instr, pitch, pitch_adjust, lerp) ==
  play([SampleChannelNew EXCEPT !.pitch = pitch, !.pitch_adjust = pitch_adjust,
                                !.lerp = lerp],
       instr)

InitSample ==
  /\ bank = SoundBankNew(Image, NumSequences, NumInstruments)
  /\ \E k \in 1..NumInstruments :
       /\ played = Some(InstrumentNew(Image, InstrTableOffset + (k - 1) * InstrumentSIZE))
       /\ \E pitch \in SamplePitches : \E adj \in SamplePitchAdjusts :
            \E lerp \in BOOLEAN :
              sample_channel = Triggered(Unwrap(played), pitch, adj, lerp)
  /\ sequence = None
  /\ samples_remaining = 0
  /\ options = OptionsNew
  /\ sample_rate \in SampleRates
  /\ overflow_checks \in BOOLEAN
  /\ pc = "idle"
  /\ data_len = 0
  /\ pos = 0
  /\ tick_log = << >>
  /\ seq_tick = 0
  /\ last_done = NoDone
  /\ stack_log = << >>
  /\ last_eval = NoEval
  /\ out_log = << >>
  /\ ui = "instr"
  /\ NoSynth
  /\ file = None

SampleRendered(r, n) ==
  /\ ~r.panic
  /\ sample_channel' = r.ch
  /\ out_log' = r.out
  /\ pos' = pos + n
  /\ pc' = pc

\* One call of SampleChannel::fill_buffer with a buffer of n samples.
SampleRender(n) ==
  /\ pc = "idle" /\ pos + n <= MaxPos
  /\ SampleRendered(SampleFill(sample_channel, sample_rate, n), n)
  /\ UNCHANGED << bank, sequence, samples_remaining, options, sample_rate,
                  overflow_checks, data_len, tick_log, seq_tick, last_done,
                  stack_log, last_eval, ui, played, synth_vars, file, fx, wav, split, lock_vars >>

\* The call panics.
SampleRenderPanic(n) ==
  /\ pc = "idle" /\ pos + n <= MaxPos
  /\ SampleFill(sample_channel, sample_rate, n).panic
  /\ last_eval' = last_eval
  /\ Panicked

NextSample ==
  \/ \E n \in 0..MaxFill : SampleRender(n)
  \/ \E n \in 0..MaxFill : SampleRenderPanic(n)

SpecSample == InitSample /\ [][NextSample]_vars

----------------------------------------------------------------------------
(* SoundChannel as a value: what one call of SoundChannel::fill_buffer does *)

SoundChannelNew ==
  [sample_channel |-> SampleChannelNew,
   samples_remaining |-> 0,
   sequence |-> None,
   options |-> OptionsNew]

SoundChannelPlayInstr(c, instr) == [c EXCEPT !.sample_channel = play(@, instr)]

SoundChannelPlaySeq(c, seq) ==
  [c EXCEPT !.sequence = Some(SequenceNew(bank.sequences[seq + 1]))]

SoundChannelStopHard(c) ==
  [c EXCEPT !.sample_channel = stop_hard(@), !.sequence = None]

SoundChannelIsActive(c) == IsSome(c.sequence) \/ IsSome(c.sample_channel.instr)

\* The dispatch loop of Sequence::update: eval until the result is not Cont.
\* A pass that comes back to a sequence and channel the loop has already been
\* in repeats forever: the result is "Spin", the loop never ends.
RECURSIVE Dispatch(_, _, _, _)
Dispatched(r, opts, seen) ==
  IF r.res = "Cont" THEN Dispatch(r.seq, r.ch, opts, seen) ELSE r

Dispatch(s, ch, opts, seen) ==
  IF << s, ch >> \in seen THEN Res("Spin", s, ch)
  ELSE Dispatched(eval(s, ch, opts), opts, seen \cup { << s, ch >> })

\* Sequence::step_frame as [kind, sequence, sample_channel]: kind is "ok"
\* (sequence None when it has ended), "panic" or "spin".
Running(e) ==
  [kind |-> IF e.panic THEN "panic" ELSE "ok",
   sequence |-> Some(e.seq), sample_channel |-> e.ch]

Updated(r, opts) ==
  IF r.res = "Done" THEN Running(StepEffects(TtlSet(r.seq), r.ch, opts))
  ELSE IF r.res = "Stop"
    THEN [kind |-> "ok", sequence |-> None, sample_channel |-> stop_hard(r.ch)]
  ELSE [kind |-> IF r.res = "Spin" THEN "spin" ELSE "panic",
        sequence |-> Some(r.seq), sample_channel |-> r.ch]

step_frame(s, ch, opts) ==
  IF s.ttl # 0 THEN Running(StepEffects(s, ch, opts))
  ELSE Updated(Dispatch(s, ch, opts, {}), opts)

\* SoundChannel::fill_buffer over n samples as [kind, c, out]: the channel
\* afterwards and the samples written.  The while loop repeats forever
\* ("spin") when a pass finds the channel and the rest of the buffer as an
\* earlier pass found them, which is what samples_per_frame = 0 leads to.
RECURSIVE FillLoop(_, _, _, _, _)
Ticked(c, rate, n, out, seen, f) ==
  IF f.kind # "ok" THEN [kind |-> f.kind, c |-> c, out |-> out]
  ELSE FillLoop([c EXCEPT !.sample_channel = f.sample_channel,
                          !.sequence = f.sequence,
                          !.samples_remaining = rate \div FRAMES_PER_SECOND],
                rate, n - c.samples_remaining, out, seen)

FramePassed(c, rate, n, out, seen, r) ==
  IF r.panic THEN [kind |-> "panic", c |-> c, out |-> out]
  ELSE Ticked(c, rate, n, out \o r.out, seen,
              IF IsSome(c.sequence)
                THEN step_frame(Unwrap(c.sequence), r.ch, c.options)
                ELSE [kind |-> "ok", sequence |-> None, sample_channel |-> r.ch])

\* Leftover that forgets to count the leftover samples off samples_remaining.
LeftoverKeep(c, n, out, r) ==
  [kind |-> IF r.panic THEN "panic" ELSE "ok",
   c |-> [c EXCEPT !.sample_channel = r.ch],
   out |-> out \o r.out]

Leftover(c, n, out, r) ==
  [kind |-> IF r.panic THEN "panic" ELSE "ok",
   c |-> [c EXCEPT !.sample_channel = r.ch, !.samples_remaining = @ - n],
   out |-> out \o r.out]

FillLoop(c, rate, n, out, seen) ==
  IF n < c.samples_remaining
    THEN Leftover(c, n, out, SampleFill(c.sample_channel, rate, n))
  ELSE IF << c, n >> \in seen THEN [kind |-> "spin", c |-> c, out |-> out]
  ELSE FramePassed(c, rate, n, out, seen \cup { << c, n >> },
                   SampleFill(c.sample_channel, rate, c.samples_remaining))

SoundChannelFill(c, rate, n) == FillLoop(c, rate, n, << >>, {})

----------------------------------------------------------------------------
(* Synth: the four channels and the mixer *)

SynthNew ==
  [channels |-> [ch_idx \in 0..(NumVoices - 1) |-> SoundChannelNew],
   stereo |-> TRUE,
   play_mode |-> "Speakers",
   max_len |-> InitMaxLen]

\* The channels' turns in Synth::fill_buffer, from channel ch_idx on, as
\* [kind, channels, tmps]: each renders frames samples into the scratch
\* buffer; a panic or an endless loop in one ends the turns.
\* One frame countdown for all the channels: the channel filled hands its
\* samples_remaining on to the next one.
ChannelFilledShared(st, ch_idx, r) ==
  [kind |-> r.kind,
   channels |-> [st.channels EXCEPT
                   ![ch_idx] = r.c,
                   ![(ch_idx + 1) % NumVoices].samples_remaining = r.c.samples_remaining],
   tmps |-> Append(st.tmps, r.out)]

ChannelFilled(st, ch_idx, r) ==
  [kind |-> r.kind,
   channels |-> [st.channels EXCEPT ![ch_idx] = r.c],
   tmps |-> Append(st.tmps, r.out)]

RECURSIVE FillChannels(_, _, _, _)
FillChannels(st, ch_idx, rate, frames) ==
  IF ch_idx = NumVoices \/ st.kind # "ok" THEN st
  ELSE FillChannels(ChannelFilled(st, ch_idx,
                                  SoundChannelFill(st.channels[ch_idx], rate, frames)),
                    ch_idx + 1, rate, frames)

\* mixer_scale * src.  Output amplitudes are kept in 1/DataDen of the unit of
\* the channels' samples, so that the scaling is exact.
DataDen == NumVoices

mixer_scale(src) == (src * DataDen) \div NumVoices

\* WritesTo with the channels paired by ch_idx / 2 instead of ch_idx & 1.
WritesToPaired(stereo, lanes, ch_idx, e, frames) ==
  /\ e \div lanes < frames
  /\ stereo /\ lanes > 1 => e % lanes = ch_idx \div 2

\* Whether channel ch_idx adds its sample to element e (from 0) of the output
\* buffer: in stereo its lane is ch_idx & 1 of each frame of lanes lanes, in
\* mono every lane of each chunk; only as far as the scratch buffer reaches.
WritesTo(stereo, lanes, ch_idx, e, frames) ==
  /\ e \div lanes < frames
  /\ stereo /\ lanes > 1 => e % lanes = ch_idx % 2

AddChannel(dat, stereo, lanes, ch_idx, tmp) ==
  [j \in 1..Len(dat) |->
     IF WritesTo(stereo, lanes, ch_idx, j - 1, Len(tmp))
       THEN dat[j] + mixer_scale(tmp[(j - 1) \div lanes + 1])
       ELSE dat[j]]

RECURSIVE MixFrom(_, _, _, _, _)
MixFrom(dat, stereo, lanes, ch_idx, tmps) ==
  IF ch_idx = Len(tmps) THEN dat
  ELSE MixFrom(AddChannel(dat, stereo, lanes, ch_idx, tmps[ch_idx + 1]),
               stereo, lanes, ch_idx + 1, tmps)

\* Synth::fill_buffer on a buffer of len elements as [kind, channels, tmps,
\* data].  The scratch buffer has len / lanes elements: a panic for lanes = 0.
Mixed(st, stereo, lanes, len) ==
  [kind |-> st.kind, channels |-> st.channels, tmps |-> st.tmps,
   data |-> IF st.kind = "ok"
              THEN MixFrom([j \in 1..len |-> EQUILIBRIUM], stereo, lanes, 0, st.tmps)
              ELSE << >>]

SynthFill(s, lanes, rate, len) ==
  IF lanes = 0
    THEN [kind |-> "panic", channels |-> s.channels, tmps |-> << >>, data |-> << >>]
    ELSE Mixed(FillChannels([kind |-> "ok", channels |-> s.channels, tmps |-> << >>],
                            0, rate, len \div lanes),
               s.stereo, lanes, len)

\* What Synth::play_instr, play_seq and play_sound hand to route, applied to a
\* synth.  A sound names a sequence for each channel, 0 for none.
PlaySoundFrom(channels, sound) ==
  [ch_idx \in DOMAIN channels |->
     IF sound[ch_idx + 1] # 0
       THEN SoundChannelPlaySeq(channels[ch_idx], sound[ch_idx + 1])
       ELSE channels[ch_idx]]

Apply(f, s) ==
  IF f.op = "play_instr"
    THEN [s EXCEPT !.channels[0] = SoundChannelPlayInstr(@, bank.instruments[f.arg + 1])]
  ELSE IF f.op = "play_seq"
    THEN [s EXCEPT !.channels[0] = SoundChannelPlaySeq(@, f.arg)]
  ELSE [s EXCEPT !.channels = PlaySoundFrom(@, f.arg)]

\* The clone Synth::route works on in WaveFile mode.
Quiesced(s) ==
  [s EXCEPT !.channels = [ch_idx \in DOMAIN @ |-> SoundChannelStopHard(@[ch_idx])]]

\* A route whose WaveFile branch starts the sound on the live synth too and
\* records the clone as it was, without the hard stop.
routeShared(s, f) ==
  IF s.play_mode = "Speakers"
    THEN [live |-> Apply(f, s), spawned |-> None]
    ELSE [live |-> Apply(f, s), spawned |-> Some(Apply(f, s))]

\* Synth::route as [live, spawned]: the synth afterwards and the synth handed
\* to the render thread, if any.
route(s, f) ==
  IF s.play_mode = "Speakers"
    THEN [live |-> Apply(f, s), spawned |-> None]
    ELSE [live |-> s, spawned |-> Some(Apply(f, Quiesced(s)))]

----------------------------------------------------------------------------
(* The realtime stream: the audio callback on the live synth *)

\* The variables of the single channel of the specifications above.
channel_vars ==
  << sample_channel, sequence, samples_remaining, options, data_len, tick_log,
     seq_tick, last_done, stack_log, last_eval, out_log, ui, played >>

NoChannel ==
  /\ sample_channel = SampleChannelNew
  /\ sequence = None
  /\ samples_remaining = 0
  /\ options = OptionsNew
  /\ data_len = 0
  /\ tick_log = << >>
  /\ seq_tick = 0
  /\ last_done = NoDone
  /\ stack_log = << >>
  /\ last_eval = NoEval
  /\ out_log = << >>
  /\ ui = "setup"
  /\ played = None

\* Stream configurations: no lane at all up to three lanes; a sample rate below
\* FRAMES_PER_SECOND and the rates of the single channel.  Buffers of every
\* length up to MixLen elements, whole frames or not.
MixLanes == 0..3
MixRates == { FRAMES_PER_SECOND \div 2 } \cup Rates
MixLen == 2 * MaxFill + 1

\* The sounds the user can start: an instrument or a sequence on channel 0 or
\* a sound of up to four sequences.  One sound is started, before the stream
\* asks for its first buffer.
Sounds == { << 1, 9, 1, 9 >>, << 0, 0, 0, 1 >> }

Calls ==
  [op : {"play_instr"}, arg : {1, 2}]
    \cup [op : {"play_seq"}, arg : {1}]
    \cup [op : {"play_sound"}, arg : Sounds]

InitMix ==
  /\ bank = SoundBankNew(Image, NumSequences, NumInstruments)
  /\ synth = SynthNew
  /\ num_channels \in MixLanes
  /\ sample_rate \in MixRates
  /\ overflow_checks \in BOOLEAN
  /\ pc = "idle"
  /\ pos = 0
  /\ data = << >>
  /\ tmp_log = << >>
  /\ clone = None
  /\ routed = 0
  /\ file = None
  /\ NoLock
  /\ NoChannel

\* The "Stereo" checkbox of Synth::ui, ticked before any sound is started.
SetStereo ==
  /\ pc = "idle" /\ routed = 0 /\ pos = 0
  /\ synth' = [synth EXCEPT !.stereo = ~@]
  /\ UNCHANGED << bank, sample_rate, overflow_checks, pc, pos, num_channels, data,
                  tmp_log, clone, routed, channel_vars, file, fx, wav, split, lock_vars >>

\* A render thread just spawned: nothing rendered yet.
Spawned(s) == [synth |-> s, len |-> 0, state |-> "dialog"]

Routed(r) ==
  /\ synth' = r.live
  /\ clone' = IF IsSome(r.spawned) THEN Some(Spawned(Unwrap(r.spawned))) ELSE clone

\* Synth::play_instr, play_seq and play_sound: a call of Synth::route.  The
\* model follows one render thread at a time.
Route(f) ==
  /\ pc = "idle"
  /\ routed < MaxRoutes
  /\ synth.play_mode = "WaveFile" => clone = None
  /\ Routed(route(synth, f))
  /\ routed' = routed + 1
  /\ UNCHANGED << bank, sample_rate, overflow_checks, pc, pos, num_channels, data,
                  tmp_log, channel_vars, file, fx, wav, split, lock_vars >>

\* The audio callback asks for a buffer of len elements; pos counts the
\* frames rendered.
Asked(len) ==
  /\ pc = "idle"
  /\ num_channels > 0 => pos + len \div num_channels <= MaxPos \div 2

Filled(r, len) ==
  /\ r.kind = "ok"
  /\ synth' = [synth EXCEPT !.channels = r.channels]
  /\ data' = r.data
  /\ tmp_log' = r.tmps
  /\ pos' = pos + len \div num_channels

\* Synth::fill_buffer called by the audio callback, returning.
Callback(len) ==
  /\ Asked(len)
  /\ Filled(SynthFill(synth, num_channels, sample_rate, len), len)
  /\ UNCHANGED << bank, sample_rate, overflow_checks, pc, num_channels, clone,
                  routed, channel_vars, file, fx, wav, split, lock_vars >>

\* Synth::fill_buffer panics: the callback thread unwinds.
CallbackPanic(len) ==
  /\ Asked(len)
  /\ SynthFill(synth, num_channels, sample_rate, len).kind = "panic"
  /\ pc' = "panicked"
  /\ UNCHANGED << bank, sample_rate, overflow_checks, pos, synth_vars, channel_vars, file, fx, wav, split, lock_vars >>

\* Synth::fill_buffer enters a loop that never ends: the callback never
\* returns.
CallbackSpin(len) ==
  /\ Asked(len)
  /\ SynthFill(synth, num_channels, sample_rate, len).kind = "spin"
  /\ pc' = "spinning"
  /\ UNCHANGED << bank, sample_rate, overflow_checks, pos, synth_vars, channel_vars, file, fx, wav, split, lock_vars >>

NextMix ==
  \/ SetStereo
  \/ \E f \in Calls : pos = 0 /\ routed = 0 /\ Route(f)
  \/ \E len \in 0..MixLen : Callback(len)
  \/ \E len \in 0..MixLen : CallbackPanic(len)
  \/ \E len \in 0..MixLen : CallbackSpin(len)

SpecMix == InitMix /\ [][NextMix]_vars

----------------------------------------------------------------------------
(* The offline render: Synth::route in WaveFile mode and Synth::record *)

\* The render's sample rate and batch, scaled down with the rest of the model:
\* two samples per frame tick (882 in the source), a batch of 1/100 s (441
\* frames in the source, half a frame tick).
SAMPLING_RATE == 2 * FRAMES_PER_SECOND
BATCH_SIZE == SAMPLING_RATE \div 100

\* max_len is kept in units of half a batch, 1/200 s.
MaxLenDen == 4 * FRAMES_PER_SECOND

RecordLanes(s) == IF s.stereo THEN 2 ELSE 1

\* (max_len * SAMPLING_RATE * num_channels) as usize
max_samples(s) == (s.max_len * SAMPLING_RATE * RecordLanes(s)) \div MaxLenDen

AnyActive(s) ==
  \E ch_idx \in DOMAIN s.channels : SoundChannelIsActive(s.channels[ch_idx])

\* The condition of record's while loop, for the render r = [synth, len, state].
MoreToRender(r) == r.len < max_samples(r.synth) /\ AnyActive(r.synth)

\* One pass of the loop: the buffer grows by a batch and Synth::fill_buffer
\* fills the new part.
BatchFill(r) ==
  SynthFill(r.synth, RecordLanes(r.synth), SAMPLING_RATE,
            BATCH_SIZE * RecordLanes(r.synth))

Rendering == IsSome(clone) /\ Unwrap(clone).state = "render"

\* The file dialog of record: the user names a file or cancels.
RecordSave ==
  /\ IsSome(clone) /\ Unwrap(clone).state = "dialog"
  /\ clone' = Some([Unwrap(clone) EXCEPT !.state = "render"])
  /\ UNCHANGED << bank, sample_rate, overflow_checks, pc, pos, synth, num_channels,
                  data, tmp_log, routed, channel_vars, file, fx, wav, split, lock_vars >>

RecordCancel ==
  /\ IsSome(clone) /\ Unwrap(clone).state = "dialog"
  /\ clone' = Some([Unwrap(clone) EXCEPT !.state = "cancelled"])
  /\ UNCHANGED << bank, sample_rate, overflow_checks, pc, pos, synth, num_channels,
                  data, tmp_log, routed, channel_vars, file, fx, wav, split, lock_vars >>

\* The render after a pass of the loop whose fill came out as f.
BatchDone(r, f) ==
  [r EXCEPT
     !.synth.channels = IF f.kind = "ok" THEN f.channels ELSE @,
     !.len = IF f.kind = "ok" THEN @ + BATCH_SIZE * RecordLanes(r.synth) ELSE @,
     !.state = IF f.kind = "ok" THEN "render"
               ELSE IF f.kind = "panic" THEN "panicked"
               ELSE "spinning"]

Batched(r) == BatchDone(r, BatchFill(r))

\* A pass of the while loop of record.  A fill that panics ends the thread
\* with nothing written; a fill that never returns leaves it "spinning".
RecordBatch ==
  /\ Rendering /\ MoreToRender(Unwrap(clone))
  /\ clone' = Some(Batched(Unwrap(clone)))
  /\ UNCHANGED << bank, sample_rate, overflow_checks, pc, pos, synth, num_channels,
                  data, tmp_log, routed, channel_vars, file, fx, wav, split, lock_vars >>

\* The loop has ended: the samples are written to the file.
RecordWrite ==
  /\ Rendering /\ ~MoreToRender(Unwrap(clone))
  /\ clone' = Some([Unwrap(clone) EXCEPT !.state = "written"])
  /\ UNCHANGED << bank, sample_rate, overflow_checks, pc, pos, synth, num_channels,
                  data, tmp_log, routed, channel_vars, file, fx, wav, split, lock_vars >>

RecordStep == RecordSave \/ RecordCancel \/ RecordBatch \/ RecordWrite

\* The "Output to" box and the "up to ... seconds" field of Synth::ui.
SetPlayMode(mode) ==
  /\ pc = "idle" /\ routed < MaxRoutes
  /\ synth.play_mode # mode
  /\ synth' = [synth EXCEPT !.play_mode = mode]
  /\ UNCHANGED << bank, sample_rate, overflow_checks, pc, pos, num_channels, data,
                  tmp_log, clone, routed, channel_vars, file, fx, wav, split, lock_vars >>

SetMaxLen(len) ==
  /\ pc = "idle" /\ routed = 0 /\ pos = 0
  /\ synth.play_mode = "WaveFile"
  /\ synth.max_len # len
  /\ synth' = [synth EXCEPT !.max_len = len]
  /\ UNCHANGED << bank, sample_rate, overflow_checks, pc, pos, num_channels, data,
                  tmp_log, clone, routed, channel_vars, file, fx, wav, split, lock_vars >>

\* An instrument that ends, a sequence that ends, a sequence that restarts
\* after each note, and a sequence that is nothing but a restart.
RecordCalls ==
  [op : {"play_instr"}, arg : {1}] \cup [op : {"play_seq"}, arg : {1, 9, 22}]

MaxLens == { 0, InitMaxLen, 2 * InitMaxLen + 1 }

InitRecord ==
  /\ bank = SoundBankNew(Image, NumSequences, NumInstruments)
  /\ synth = SynthNew
  /\ num_channels = 2
  /\ sample_rate = SAMPLING_RATE
  /\ overflow_checks \in BOOLEAN
  /\ pc = "idle"
  /\ pos = 0
  /\ data = << >>
  /\ tmp_log = << >>
  /\ clone = None
  /\ routed = 0
  /\ file = None
  /\ NoLock
  /\ NoChannel

NextRecord ==
  \/ SetStereo
  \/ \E mode \in {"Speakers", "WaveFile"} : SetPlayMode(mode)
  \/ \E len \in MaxLens : SetMaxLen(len)
  \/ \E f \in RecordCalls : Route(f)
  \/ Callback(2 * MaxFill)
  \/ CallbackSpin(2 * MaxFill)
  \/ RecordStep

SpecRecord == InitRecord /\ [][NextRecord]_vars

----------------------------------------------------------------------------
(* The mutex around the live Synth: the audio callback and the UI thread *)

\* Mutex::lock goes through when nobody holds the mutex; it blocks otherwise.
CanLockAny(m) == TRUE

CanLock(m) == m = "free"

\* The callback's frames per buffer in this specification.
LockLen == 2 * MaxFill

\* The callback closure of sound_init: source.lock().unwrap() ...
AudioLock ==
  /\ pc = "idle"
  /\ pos + LockLen \div num_channels <= MaxPos \div 2
  /\ CanLock(mutex)
  /\ mutex' = "audio"
  /\ pc' = "locked"
  /\ held' = 0
  /\ UNCHANGED << bank, sample_rate, overflow_checks, pos, synth_vars, channel_vars,
                  file, fx, wav, split, ui_pc >>

\* ... .fill_buffer(num_channels, sample_rate, data) on the locked Synth ...
AudioFill ==
  /\ pc = "locked"
  /\ Filled(SynthFill(synth, num_channels, sample_rate, LockLen), LockLen)
  /\ pc' = "filled"
  /\ held' = held + 1
  /\ UNCHANGED << bank, sample_rate, overflow_checks, num_channels, clone, routed,
                  channel_vars, file, fx, wav, split, mutex, ui_pc >>

\* ... which may never return: the mutex stays with the callback.
AudioFillSpin ==
  /\ pc = "locked"
  /\ SynthFill(synth, num_channels, sample_rate, LockLen).kind = "spin"
  /\ pc' = "spinning"
  /\ UNCHANGED << bank, sample_rate, overflow_checks, pos, synth_vars, channel_vars,
                  file, fx, wav, split, lock_vars >>

\* ... and the guard is dropped at the end of the statement.
AudioUnlock ==
  /\ pc = "filled"
  /\ mutex' = "free"
  /\ pc' = "idle"
  /\ UNCHANGED << bank, sample_rate, overflow_checks, pos, synth_vars, channel_vars,
                  file, fx, wav, split, ui_pc, held >>

\* The UI thread takes the same mutex for each edit of the Synth.
UiLock ==
  /\ ui_pc = "idle"
  /\ routed < MaxRoutes
  /\ CanLock(mutex)
  /\ mutex' = "ui"
  /\ ui_pc' = "editing"
  /\ UNCHANGED << bank, sample_rate, overflow_checks, pc, pos, synth_vars,
                  channel_vars, file, fx, wav, split, held >>

\* An edit: a play call or the stereo checkbox.
Edited(s, e) ==
  IF e.op = "stereo" THEN [s EXCEPT !.stereo = ~@] ELSE route(s, e).live

UiEdit(e) ==
  /\ ui_pc = "editing"
  /\ synth' = Edited(synth, e)
  /\ routed' = routed + 1
  /\ ui_pc' = "edited"
  /\ UNCHANGED << bank, sample_rate, overflow_checks, pc, pos, num_channels, data,
                  tmp_log, clone, channel_vars, file, fx, wav, split, mutex, held >>

UiUnlock ==
  /\ ui_pc = "edited"
  /\ mutex' = "free"
  /\ ui_pc' = "idle"
  /\ UNCHANGED << bank, sample_rate, overflow_checks, pc, pos, synth_vars,
                  channel_vars, file, fx, wav, split, held >>

Edits ==
  [op : {"play_instr"}, arg : {1, 2}] \cup [op : {"play_seq"}, arg : {1, 22}]
    \cup [op : {"stereo"}, arg : {0}]

NextLock ==
  \/ AudioLock
  \/ AudioFill
  \/ AudioFillSpin
  \/ AudioUnlock
  \/ UiLock
  \/ \E e \in Edits : UiEdit(e)
  \/ UiUnlock

SpecLock == InitRecord /\ [][NextLock]_vars

----------------------------------------------------------------------------
(* Loading a bank: SoundBank::new of sound_player.rs and of sound_model.rs *)

\* sound_model.rs builds the bank with these counts whatever the file is.
SoundModelNew(dat) == SoundBankNew(dat, NUM_SEQUENCES, NUM_INSTRUMENTS)

\* Whether the header and both tables lie inside the image; SoundBank::new
\* panics on an index out of range otherwise.
TablesFit(dat, num_sequences, num_instruments) ==
  /\ Len(dat) >= 8
  /\ num_sequences > 0 => long(dat, 0) + 4 * num_sequences <= Len(dat)
  /\ num_instruments > 0 =>
       long(dat, 4) + InstrumentSIZE * num_instruments <= Len(dat)

\* Bank files: a header naming the two table offsets, then n bytes
\* (a * j + b) mod 128, so that each table entry decodes to a value of its
\* own (below 2^31, the range of the checker's integers); short files and
\* files long enough for the tables of sound_model.rs.
Filler(a, b, n) == [j \in 1..n |-> (a * j + b) % 128]

BankFile(sto, ito, a, b, n) == LongBytes(sto) \o LongBytes(ito) \o Filler(a, b, n)

FileLens == { 40, 1000 }

Files ==
  { [data |-> BankFile(sto, ito, a, b, n),
     num_sequences |-> ns, num_instruments |-> ni, by |-> "none"] :
      sto \in {8, 20}, ito \in {8, 12, 30}, a \in {1, 7, 83}, b \in {0, 255},
      n \in FileLens, ns \in {0, 1, 3}, ni \in {0, 1, 2} }
    \cup { [data |-> Image, num_sequences |-> NumSequences,
            num_instruments |-> NumInstruments, by |-> "none"] }

\* No bank yet.
NoBank == [data |-> << >>, sequences |-> << >>, instruments |-> << >>]

InitLoad ==
  /\ file \in Files
  /\ bank = NoBank
  /\ sample_rate = FRAMES_PER_SECOND
  /\ overflow_checks \in BOOLEAN
  /\ pc = "idle"
  /\ pos = 0
  /\ NoSynth
  /\ NoChannel

Loaded(b, by) ==
  /\ bank' = b
  /\ file' = [file EXCEPT !.by = by]
  /\ pc' = "loaded"
  /\ UNCHANGED << sample_rate, overflow_checks, pos, synth_vars, channel_vars,
                  fx, wav, split, lock_vars >>

LoadPanicked ==
  /\ pc' = "panicked"
  /\ UNCHANGED << bank, sample_rate, overflow_checks, pos, synth_vars, channel_vars,
                  file, fx, wav, split, lock_vars >>

\* sound_player.rs: SoundBank::new(data, num_sequences, num_instruments), the
\* caller passing the counts that go with the file.
Load ==
  /\ pc = "idle"
  /\ TablesFit(file.data, file.num_sequences, file.num_instruments)
  /\ Loaded(SoundBankNew(file.data, file.num_sequences, file.num_instruments),
            "sound_player")

LoadPanic ==
  /\ pc = "idle"
  /\ ~TablesFit(file.data, file.num_sequences, file.num_instruments)
  /\ LoadPanicked

\* sound_model.rs: SoundBank::new(data), as main.rs calls it.
LoadModel ==
  /\ pc = "idle"
  /\ TablesFit(file.data, NUM_SEQUENCES, NUM_INSTRUMENTS)
  /\ Loaded(SoundModelNew(file.data), "sound_model")

LoadModelPanic ==
  /\ pc = "idle"
  /\ ~TablesFit(file.data, NUM_SEQUENCES, NUM_INSTRUMENTS)
  /\ LoadPanicked

NextLoad == Load \/ LoadPanic \/ LoadModel \/ LoadModelPanic

SpecLoad == InitLoad /\ [][NextLoad]_vars

----------------------------------------------------------------------------
(* The effect runner on its own: EffectState::step behind step_tremolo and *)
(* step_vibrato, for bend arrays drawn from a bounded set                  *)

\* The rate of the bend at position i is fixed, so that a returned rate
\* names the bend that fired: -10, 0, 10.
RateAt(i) == 10 * i - 20

BendsAt(i) ==
  { Bend(RateAt(i), pause, length) : pause \in 0..MaxPause, length \in 0..MaxBendLen }

\* The last vibrato bend takes the extreme values only.
LastBends ==
  { Bend(RateAt(3), pause, length) : pause \in {0, MaxPause}, length \in {0, MaxBendLen} }

\* Effects with one array populated, the other made of empty bends.
TremoloEffects ==
  { [tremolos |-> << b1, b2 >>, vibratos |-> << NoBend, NoBend, NoBend >>] :
      b1 \in BendsAt(1), b2 \in BendsAt(2) }

VibratoEffects ==
  { [tremolos |-> << NoBend, NoBend >>, vibratos |-> << b1, b2, b3 >>] :
      b1 \in BendsAt(1), b2 \in BendsAt(2), b3 \in LastBends }

\* The effect state as SetEffect leaves it (new) or as a Note leaves it
\* (reset from the templates), with the loop flags LoopFlags has set.
EffectStates(effect) ==
  { [es EXCEPT !.tremolo_loops = loops, !.vibrato_loops = ~loops] :
      es \in { EffectStateNew, EffectStateReset(EffectStateNew, effect) },
      loops \in BOOLEAN }

InitEffect ==
  /\ \E effect \in TremoloEffects \cup VibratoEffects :
       \E es \in EffectStates(effect) :
         fx = Some([effect |-> effect, es |-> es, rate |-> 0, array |-> "none",
                    calls |-> 0])
  /\ bank = NoBank
  /\ sample_rate = FRAMES_PER_SECOND
  /\ overflow_checks \in BOOLEAN
  /\ pc = "idle"
  /\ pos = 0
  /\ synth = None
  /\ num_channels = 1
  /\ data = << >>
  /\ tmp_log = << >>
  /\ clone = None
  /\ routed = 0
  /\ file = None
  /\ mutex = "free"
  /\ ui_pc = "idle"
  /\ held = 0
  /\ wav = None
  /\ split = None
  /\ NoChannel

\* fx after a call that left the effect state es and returned rate.
Called(es, rate, array) ==
  fx' = Some([Unwrap(fx) EXCEPT !.es = es, !.rate = rate, !.array = array,
                                !.calls = @ + 1])

\* EffectState::step_tremolo: steps the vibrato bends.
StepTremolo ==
  /\ IsSome(fx) /\ Unwrap(fx).calls < MaxCalls
  /\ ~step_tremolo(Unwrap(fx).es, Unwrap(fx).effect).panic
  /\ Called(step_tremolo(Unwrap(fx).es, Unwrap(fx).effect).es,
            EffectStep(Unwrap(fx).effect.vibratos, Unwrap(fx).es.vibratos,
                       Unwrap(fx).es.vibrato_loops).rate,
            "vibratos")
  /\ UNCHANGED << bank, sample_rate, overflow_checks, pc, pos, synth_vars,
                  channel_vars, file, wav, split, lock_vars >>

\* EffectState::step_vibrato: steps the tremolo bends.
StepVibrato ==
  /\ IsSome(fx) /\ Unwrap(fx).calls < MaxCalls
  /\ ~step_vibrato(Unwrap(fx).es, Unwrap(fx).effect).panic
  /\ Called(step_vibrato(Unwrap(fx).es, Unwrap(fx).effect).es,
            EffectStep(Unwrap(fx).effect.tremolos, Unwrap(fx).es.tremolos,
                       Unwrap(fx).es.tremolo_loops).rate,
            "tremolos")
  /\ UNCHANGED << bank, sample_rate, overflow_checks, pc, pos, synth_vars,
                  channel_vars, file, wav, split, lock_vars >>

NextEffect == StepTremolo \/ StepVibrato

SpecEffect == InitEffect /\ [][NextEffect]_vars

----------------------------------------------------------------------------
(* cpal_wrapper::write_wav over a SoundSource *)

\* A SoundSource by the contract of the trait: a stream with left frames to
\* go.  stream_done returns true once the stream has ended; fill_buffer keeps
\* working after that.
stream_done(source) == source.left = 0

SourceFilled(source, frames) ==
  [source EXCEPT !.left = IF @ > frames THEN @ - frames ELSE 0]

WavLanes(w) == IF w.stereo THEN 2 ELSE 1

\* (max_time_s * SAMPLING_RATE as f32 * num_channels as f32) as usize, with
\* max_time_s in units of 1 / MaxLenDen s.
WavMaxSamples(w) == (w.max_time_s * SAMPLING_RATE * WavLanes(w)) \div MaxLenDen

\* The condition of the while loop of write_wav.
WavLoops(w) == w.len < WavMaxSamples(w) /\ stream_done(w.source)

WavAt(state) == IsSome(wav) /\ Unwrap(wav).state = state

\* The save dialog returns a file name.
WavSave ==
  /\ WavAt("dialog")
  /\ wav' = Some([Unwrap(wav) EXCEPT !.state = "render"])
  /\ UNCHANGED << bank, sample_rate, overflow_checks, pc, pos, synth_vars,
                  channel_vars, file, fx, split, lock_vars >>

\* The save dialog is dismissed: write_wav returns.
WavCancel ==
  /\ WavAt("dialog")
  /\ wav' = Some([Unwrap(wav) EXCEPT !.state = "cancelled"])
  /\ UNCHANGED << bank, sample_rate, overflow_checks, pc, pos, synth_vars,
                  channel_vars, file, fx, split, lock_vars >>

\* A pass of the while loop: data grows by one batch, which the source fills.
WavBatched(w) ==
  [w EXCEPT !.len = @ + BATCH_SIZE * WavLanes(w),
            !.source = SourceFilled(@, BATCH_SIZE)]

WavBatch ==
  /\ WavAt("render")
  /\ WavLoops(Unwrap(wav))
  /\ wav' = Some(WavBatched(Unwrap(wav)))
  /\ UNCHANGED << bank, sample_rate, overflow_checks, pc, pos, synth_vars,
                  channel_vars, file, fx, split, lock_vars >>

\* The while loop is left and the data are written out.
WavWrite ==
  /\ WavAt("render")
  /\ ~WavLoops(Unwrap(wav))
  /\ wav' = Some([Unwrap(wav) EXCEPT !.state = "written"])
  /\ UNCHANGED << bank, sample_rate, overflow_checks, pc, pos, synth_vars,
                  channel_vars, file, fx, split, lock_vars >>

InitWav ==
  /\ \E left \in 0..MaxStream : \E stereo \in BOOLEAN : \E t \in MaxLens :
       wav = Some([source |-> [left |-> left], stereo |-> stereo,
                   max_time_s |-> t, len |-> 0, state |-> "dialog"])
  /\ bank = NoBank
  /\ sample_rate = SAMPLING_RATE
  /\ overflow_checks \in BOOLEAN
  /\ pc = "idle"
  /\ pos = 0
  /\ synth = None
  /\ num_channels = 1
  /\ data = << >>
  /\ tmp_log = << >>
  /\ clone = None
  /\ routed = 0
  /\ file = None
  /\ fx = None
  /\ split = None
  /\ mutex = "free"
  /\ ui_pc = "idle"
  /\ held = 0
  /\ NoChannel

NextWav == WavSave \/ WavCancel \/ WavBatch \/ WavWrite

SpecWav == InitWav /\ [][NextWav]_vars

----------------------------------------------------------------------------
(* SoundChannel::fill_buffer called in pieces *)

\* The sample offsets at which the while loop of SoundChannel::fill_buffer
\* delivers a frame tick, for a buffer of n samples that starts at offset at
\* with samples_remaining = remaining.
RECURSIVE TickOffsets(_, _, _)
TickOffsets(remaining, n, at) ==
  IF n < remaining THEN << >>
  ELSE << at + remaining >>
         \o TickOffsets(samples_per_frame, n - remaining, at + remaining)

\* The channels a series of calls starts from: a channel that has idled up to
\* remaining samples before a frame boundary, with a sound just started.
SplitSeqs == { 1, 9, 10, 16, 17, 22, 24, 28 }
SplitInstrs == { 0, 1, 2 }

Idled(remaining) == [SoundChannelNew EXCEPT !.samples_remaining = remaining]

SplitStarts ==
  { SoundChannelPlaySeq(Idled(remaining), seq) :
      remaining \in 0..samples_per_frame, seq \in SplitSeqs }
    \cup { SoundChannelPlayInstr(Idled(remaining), bank.instruments[k + 1]) :
             remaining \in 0..samples_per_frame, k \in SplitInstrs }

InitSplit ==
  /\ bank = SoundBankNew(Image, NumSequences, NumInstruments)
  /\ sample_rate \in Rates
  /\ overflow_checks \in BOOLEAN
  /\ \E c \in SplitStarts :
       split = Some([c0 |-> c, c |-> c, kind |-> "ok", lens |-> << >>,
                     total |-> 0, ticks |-> << >>, out |-> << >>])
  /\ pc = "idle"
  /\ pos = 0
  /\ synth = None
  /\ num_channels = 1
  /\ data = << >>
  /\ tmp_log = << >>
  /\ clone = None
  /\ routed = 0
  /\ file = None
  /\ fx = None
  /\ wav = None
  /\ mutex = "free"
  /\ ui_pc = "idle"
  /\ held = 0
  /\ NoChannel

\* The series w after one more call, of d samples, that did r.
SplitCalled(w, r, d) ==
  [w EXCEPT !.c = r.c,
            !.kind = r.kind,
            !.lens = Append(@, d),
            !.total = @ + d,
            !.ticks = IF r.kind = "ok"
                        THEN @ \o TickOffsets(w.c.samples_remaining, d, w.total)
                        ELSE @,
            !.out = @ \o r.out]

\* One more call of SoundChannel::fill_buffer, with a buffer of d samples.
SplitCall(d) ==
  /\ IsSome(split) /\ Unwrap(split).kind = "ok"
  /\ Len(Unwrap(split).lens) < MaxSplits
  /\ Unwrap(split).total + d <= MaxPos
  /\ split' = Some(SplitCalled(Unwrap(split),
                               SoundChannelFill(Unwrap(split).c, sample_rate, d),
                               d))
  /\ UNCHANGED << bank, sample_rate, overflow_checks, pc, pos, synth_vars,
                  channel_vars, file, fx, wav, lock_vars >>

NextSplit == \E d \in 0..MaxFill : SplitCall(d)

SpecSplit == InitSplit /\ [][NextSplit]_vars

----------------------------------------------------------------------------
(* Properties *)

Implemented ==
  { OpSetVol, OpRestart, OpSetLen, OpRest, OpTempo, OpSetEffect, OpLoopFlags,
    OpStop, OpCall, OpReturn, OpTransRel, OpTransAbs, OpFor, OpNext,
    OpSetInstr, OpJump }

AllZero(out) == \A i \in 1..Len(out) : out[i] = 0

\* The sequence has been attached since PlaySeq and the callback is between
\* two passes of its while loop.
SeqRunning == ui = "seq" /\ IsSome(sequence) /\ pc \in {"idle", "loop"}

\* The latest eval, and nothing stopped since.
JustEvaluated(code, res) ==
  last_eval.code = code /\ last_eval.res = res /\ ui = "seq"

\* C1: no input makes the audio callback panic: whatever the image, the
\* sequence index played and the options, the callback thread stays alive.
C1_NoPanic == pc # "panicked"

\* C2: with samples_per_frame = sample_rate / 50, rendering K * samples_per_frame
\* contiguous samples makes exactly K step_frame calls, however the samples
\* are split over fill_buffer calls and from a fresh channel on.  The samples
\* counted are those rendered since play_seq attached the sequence.
C2_FrameAccounting ==
  /\ ui = "seq" /\ IsSome(sequence) /\ pc = "idle"
  /\ pos > 0 /\ pos % samples_per_frame = 0
  =>
  seq_tick = pos \div samples_per_frame

\* The frame ticks with offset in [a, b).
TicksIn(a, b) ==
  Cardinality({ i \in 1..Len(tick_log) : a <= tick_log[i].at /\ tick_log[i].at < b })

\* What does hold of the ticks: they are samples_per_frame samples apart,
\* the first one of a fresh channel at offset 0, and each one delivered to an
\* attached sequence is one step_frame call.
TickSpacing ==
  /\ \A a \in 0..pos : \A K \in 0..pos :
       a + K * samples_per_frame <= pos =>
         TicksIn(a, a + K * samples_per_frame) = K
  /\ ui = "seq" /\ IsSome(sequence) =>
       /\ seq_tick = Cardinality({ i \in 1..Len(tick_log) : tick_log[i].stepped })
       /\ \A i \in 1..Len(tick_log) :
            ~tick_log[i].stepped => i = 1 /\ tick_log[i].at = 0

\* C3: a note dispatched on tick t with note_len = N >= 1 is held for N ticks:
\* no opcode is dispatched on ticks t+1 .. t+N-1 and the next dispatch is on
\* tick t+N; a Stop dispatched there detaches the sequence and hard-stops the
\* sample channel on that tick.
C3_NoteDuration ==
  /\ last_done.op = "Note" /\ last_done.len >= 1 /\ ui = "seq" =>
       /\ pc = "eval" => seq_tick = last_done.tick + last_done.len
       /\ SeqRunning =>
            /\ Unwrap(sequence).ttl >= 0
            /\ Unwrap(sequence).ttl = last_done.tick + last_done.len - 1 - seq_tick
  /\ last_eval.code = OpStop =>
       /\ last_eval.res = "Stop"
       /\ pc \in {"idle", "loop"}
       /\ sequence = None
       /\ sample_channel.instr = None
       /\ seq_tick = last_eval.tick

C3_Witness ==
  /\ last_eval.code = OpStop /\ last_eval.res = "Stop"
  /\ last_done.op = "Note" /\ last_done.len = 3
  /\ last_eval.tick = last_done.tick + 3
  /\ ~is_active

\* C4: For n at address A pushes (n, A+2); a Next on an entry with count > 0
\* decrements it and jumps to the entry's address, a Next on an entry with
\* count = 0 pops it and falls through: the body between them runs n+1 times.
C4_ForNext ==
  /\ \A i \in 1..Len(stack_log) :
       IsSome(sequence) /\ stack_log[i].kind = "for" =>
         Unwrap(sequence).loop_stack[i].count + stack_log[i].passes = stack_log[i].init
  /\ JustEvaluated(OpFor, "Cont") =>
       /\ IsSome(sequence)
       /\ Len(Unwrap(sequence).loop_stack) = last_eval.depth + 1
       /\ Unwrap(sequence).loop_stack[last_eval.depth + 1] =
            [count |-> ByteAt(bank.data, last_eval.at + 1), addr |-> last_eval.at + 2]
       /\ Unwrap(sequence).addr = last_eval.at + 2
  /\ last_eval.code = OpNext /\ last_eval.log.kind = "for" /\ ui = "seq" =>
       /\ last_eval.res = "Cont"
       /\ IsSome(sequence)
       /\ IF last_eval.top.count > 0
            THEN /\ Len(Unwrap(sequence).loop_stack) = last_eval.depth
                 /\ Unwrap(sequence).loop_stack[last_eval.depth] =
                      [count |-> last_eval.top.count - 1, addr |-> last_eval.top.addr]
                 /\ Unwrap(sequence).addr = last_eval.top.addr
                 /\ last_eval.top.addr = last_eval.log.at + 2
            ELSE /\ Unwrap(sequence).loop_stack =
                      SubSeq(Unwrap(sequence).loop_stack, 1, last_eval.depth - 1)
                 /\ Len(Unwrap(sequence).loop_stack) = last_eval.depth - 1
                 /\ Unwrap(sequence).addr = last_eval.at + 1
                 /\ last_eval.log.passes = last_eval.log.init

C4_Witness ==
  /\ JustEvaluated(OpNext, "Cont")
  /\ last_eval.log.kind = "for"
  /\ last_eval.top.count = 0
  /\ last_eval.log.init = 2 /\ last_eval.log.passes = 2
  /\ Len(Unwrap(sequence).loop_stack) = last_eval.depth - 1

\* C5: Call seq at address A pushes (0, A+2) and sets addr = sequences[seq];
\* the Return that finds this entry on top pops it and resumes at A+2.  Calls
\* nest last in, first out: the Return resumes right after the latest Call not
\* yet returned, at the stack depth from before that Call.
C5_CallReturn ==
  /\ JustEvaluated(OpCall, "Cont") =>
       /\ IsSome(sequence)
       /\ Len(Unwrap(sequence).loop_stack) = last_eval.depth + 1
       /\ Unwrap(sequence).loop_stack[last_eval.depth + 1] =
            [count |-> 0, addr |-> last_eval.at + 2]
       /\ Unwrap(sequence).addr = bank.sequences[ByteAt(bank.data, last_eval.at + 1) + 1]
  /\ last_eval.code = OpReturn /\ last_eval.log.kind = "call" /\ ui = "seq" =>
       /\ last_eval.res = "Cont"
       /\ IsSome(sequence)
       /\ Unwrap(sequence).addr = last_eval.log.at + 2
       /\ Len(Unwrap(sequence).loop_stack) = last_eval.log.depth
       /\ last_eval.log.depth = last_eval.depth - 1
       /\ stack_log = SubSeq(stack_log, 1, last_eval.log.depth)

C5_Witness ==
  /\ JustEvaluated(OpReturn, "Cont")
  /\ last_eval.log.kind = "call"
  /\ last_eval.depth = 2
  /\ stack_log # << >> /\ stack_log[1].kind = "call"
  /\ Unwrap(sequence).addr = last_eval.log.at + 2

\* C6: a Return dispatched with an empty loop stack is a Stop: on that tick
\* the sequence is detached and the sample channel hard-stopped.
C6_ReturnOnEmpty ==
  last_eval.code = OpReturn /\ last_eval.depth = 0 =>
    /\ last_eval.res = "Stop"
    /\ pc \in {"idle", "loop"}
    /\ sequence = None
    /\ sample_channel.instr = None
    /\ seq_tick = last_eval.tick

C6_Witness ==
  /\ last_eval.code = OpReturn /\ last_eval.depth = 0 /\ last_eval.res = "Stop"
  /\ last_done.op = "Note"
  /\ sequence = None /\ sample_channel.instr = None

\* C7: a Next dispatched with an empty loop stack is treated as a Stop: the
\* sequence ends and the callback goes on.
C7_NextOnEmpty ==
  last_eval.code = OpNext /\ last_eval.depth = 0 =>
    /\ last_eval.res = "Stop"
    /\ pc # "panicked"

\* C8: an opcode byte >= 0x80 outside the implemented set makes eval return
\* Stop without reading an operand: the sequence is detached, the channel
\* hard-stopped, and the fills that follow render silence.
UnknownLast == last_eval.code >= 128 /\ last_eval.code \notin Implemented

UnknownStops ==
  UnknownLast =>
    /\ last_eval.res = "Stop"
    /\ pc \in {"idle", "loop"}
    /\ sequence = None
    /\ sample_channel.instr = None

UnknownStep ==
  /\ pc = "eval" /\ NextCode(Unwrap(sequence)) >= 128
       /\ NextCode(Unwrap(sequence)) \notin Implemented =>
       /\ eval(Unwrap(sequence), sample_channel, options).res = "Stop"
       /\ eval(Unwrap(sequence), sample_channel, options).seq.addr =
            Unwrap(sequence).addr + 1
       /\ sequence' = None
  /\ UnknownLast /\ ui' = ui => pc' # "panicked" /\ AllZero(out_log')

C8_UnknownOpcode == [](UnknownStops) /\ [][UnknownStep]_vars

C8_Witness ==
  /\ UnknownLast /\ last_eval.res = "Stop"
  /\ last_done.op = "Note"
  /\ pos > last_eval.pos
  /\ out_log # << >> /\ AllZero(out_log)
  /\ pc = "idle"

\* C9: with repeats off, opcode 0x88 ends that tick's dispatch with Done, the
\* sequence staying attached, and leaves addr past the opcode instead of
\* setting it to start_addr.
C9_RepeatGate ==
  last_eval.code = OpRestart /\ ~options.repeats =>
    /\ last_eval.res = "Done"
    /\ ui = "seq" /\ pc # "panicked" =>
         /\ IsSome(sequence)
         /\ last_done.op = "Restart"
         /\ Unwrap(sequence).addr = last_eval.at + 1
         /\ Unwrap(sequence).addr # Unwrap(sequence).start_addr
         /\ seq_tick >= last_eval.tick

C9_Witness ==
  /\ last_eval.code = OpRestart /\ ~options.repeats
  /\ SeqRunning /\ pc = "idle"
  /\ last_done.op = "Restart"
  /\ last_eval.at > Unwrap(sequence).start_addr
  /\ Unwrap(sequence).addr = last_eval.at + 1

\* C10: with the tremolo and vibrato options at their defaults, a held note
\* whose effect's first vibrato bend has rate r, pause 0 and length n has
\* pitch_adjust = k * r after k <= n ticks (n * r after n), and the period the
\* channel renders with is the pitch table entry plus pitch_adjust.
HeldTicks == seq_tick - last_done.tick + 1

C10_VibratoAccumulates ==
  /\ SeqRunning
  /\ options.tremolo /\ options.vibrato
  /\ last_done.op = "Note"
  /\ Unwrap(sequence).effect.vibratos[1].pause = 0
  /\ HeldTicks <= Unwrap(sequence).effect.vibratos[1].length
  =>
  /\ sample_channel.pitch_adjust = HeldTicks * Unwrap(sequence).effect.vibratos[1].rate
  /\ IsSome(sample_channel.instr)
  /\ ~PitchIndexPanics(sample_channel)
  /\ PeriodTick(sample_channel) =
       PITCHES(PitchIndex(sample_channel))
         + HeldTicks * Unwrap(sequence).effect.vibratos[1].rate

C10_Witness ==
  /\ SeqRunning /\ pc = "idle"
  /\ options.tremolo /\ options.vibrato
  /\ last_done.op = "Note"
  /\ Unwrap(sequence).effect.vibratos[1] = Bend(10, 0, 4)
  /\ HeldTicks = 4
  /\ sample_channel.pitch_adjust = 40
  /\ PeriodTick(sample_channel) = PITCHES(PitchIndex(sample_channel)) + 40

\* C11: the period delta reaches the sample channel iff the vibrato option is
\* on and the volume delta iff the tremolo option is on: with vibrato off from
\* the start of a sequence pitch_adjust stays 0 on every tick, and with tremolo
\* off volume_adjust stays 0.
C11_OptionGating ==
  ui = "seq" =>
    /\ ~options.vibrato => sample_channel.pitch_adjust = 0
    /\ ~options.tremolo => sample_channel.volume_adjust = 0

\* The first bend of an array is reached by every call of EffectState::step.
\* While a note is held the vibrato bends have been stepped HeldTicks times
\* if the tremolo option is on, the tremolo bends if the vibrato option is on.
VibratoBendsStepped ==
  /\ SeqRunning /\ last_done.op = "Note"
  /\ options.tremolo /\ ~Unwrap(sequence).effect_state.vibrato_loops

TremoloBendsStepped ==
  /\ SeqRunning /\ last_done.op = "Note"
  /\ options.vibrato /\ ~Unwrap(sequence).effect_state.tremolo_loops

\* C12, as stated: a bend reset from its template has length_count = 0 after
\* bend.length + bend.pause calls of EffectState::step, and is skipped from
\* then on.
LengthPlusPause(bend, state, calls) ==
  calls >= bend.length + bend.pause => state.length_count = 0

LengthTimesPause(bend, state, calls) ==
  IF calls >= bend.length * (bend.pause + 1)
    THEN state.length_count = 0
    ELSE state.length_count = bend.length - (calls \div (bend.pause + 1))

AsTriggered == [sample_channel EXCEPT !.instr = played]

StepOf == StepUnits(PeriodTick(AsTriggered), sample_rate)

\* The index (from 1) of the j-th sample of out_log among the samples
\* rendered since the trigger.
SampleIndex(j) == pos - Len(out_log) + j

ByteOf(instrument, idx) == I8(ByteAt(bank.data, instrument.sample_addr + idx))

\* C13: a one-shot instrument played without interpolation at step = 1/m
\* emits each of its 2 * sample_len bytes for m consecutive output samples,
\* byte 0 on the first output sample, and then silence; the voice is inactive
\* once those 2 * sample_len * m samples are out.
C13_OneShotPlayback ==
  \A m \in 1..2 :
    /\ IsSome(played) /\ Unwrap(played).is_one_shot
    /\ ~sample_channel.lerp
    /\ ~PitchIndexPanics(AsTriggered)
    /\ StepOf * m = PhaseDen
    =>
    /\ \A j \in 1..Len(out_log) :
         out_log[j] =
           IF SampleIndex(j) <= 2 * Unwrap(played).sample_len * m
             THEN sample_channel.volume
                    * ByteOf(Unwrap(played), (SampleIndex(j) - 1) \div m) * PhaseDen
             ELSE 0
    /\ pos > 2 * Unwrap(played).sample_len * m => ~is_active

\* Output sample number i (from 1) lies strictly beyond 2 * sample_len / step
\* samples of the played instrument.
PastEnd(i) == i * StepOf > 2 * Unwrap(played).sample_len * PhaseDen

OneShotTriggered ==
  /\ IsSome(played) /\ Unwrap(played).is_one_shot
  /\ pc # "panicked"
  /\ ~PitchIndexPanics(AsTriggered)

\* C14: once strictly more than 2 * sample_len / step output samples of a
\* one-shot instrument have been rendered on a channel without a sequence,
\* the instrument has been dropped, is_active is false, and every output
\* sample from then on is silence.
C14_OneShotTermination ==
  OneShotTriggered =>
    /\ PastEnd(pos) => ~IsSome(sample_channel.instr) /\ ~is_active
    /\ \A j \in 1..Len(out_log) : PastEnd(SampleIndex(j)) => out_log[j] = 0

\* A fill call that starts while the instrument still sounds and ends beyond
\* the end of the sample, at a step below one source sample per output sample.
C14_Witness ==
  /\ OneShotTriggered
  /\ StepOf < PhaseDen
  /\ PastEnd(pos) /\ ~PastEnd(pos - Len(out_log))
  /\ Len(out_log) = 2 /\ out_log[1] # 0 /\ out_log[2] = 0
  /\ ~is_active

\* C15: for a looped instrument with loop_offset < 2 * sample_len and any
\* positive step, every wrap leaves floor(phase) in [0, 2 * sample_len), so
\* no fetch leaves the instrument's sample (and none can leave the image).
C15_LoopContinuity ==
  /\ IsSome(played) /\ ~Unwrap(played).is_one_shot
  /\ Unwrap(played).loop_offset < 2 * Unwrap(played).sample_len
  /\ ~PitchIndexPanics(AsTriggered)
  /\ StepOf > 0
  =>
  /\ pc # "panicked"
  /\ sample_channel.phase \div PhaseDen \in 0..(2 * Unwrap(played).sample_len - 1)

AllInactive(s) ==
  \A ch_idx \in DOMAIN s.channels : ~SoundChannelIsActive(s.channels[ch_idx])

\* A step of the audio callback, not of the user.
CallbackStep == routed' = routed /\ synth'.stereo = synth.stereo

\* C16: when none of the four channels has an instrument or a sequence,
\* Synth::fill_buffer returns, for any num_channels, sample_rate and buffer
\* length, with every element of the buffer at equilibrium and all channels
\* still inactive.
C16_SilenceInvariant ==
  [][pc = "idle" /\ AllInactive(synth) /\ CallbackStep
       => /\ pc' = "idle"
          /\ \A j \in 1..Len(data') : data'[j] = EQUILIBRIUM
          /\ AllInactive(synth')]_vars

\* The sum of the samples the channels in cs rendered for a frame.
RECURSIVE SumOver(_, _)
SumOver(cs, frame) ==
  IF cs = {} THEN 0
  ELSE LET ch_idx == CHOOSE c \in cs : TRUE
       IN  tmp_log[ch_idx + 1][frame + 1] + SumOver(cs \ {ch_idx}, frame)

Voices == 0..(NumVoices - 1)

\* The channels that reach lane l: in stereo those with ch_idx & 1 = l, in
\* mono all of them.
Reaching(l) ==
  IF synth.stereo /\ num_channels > 1
    THEN { ch_idx \in Voices : ch_idx % 2 = l }
    ELSE Voices

FramesMixed == IF tmp_log = << >> THEN 0 ELSE Len(tmp_log[1])

\* C17: with stereo on and num_channels >= 2 lane 0 of every frame carries
\* channels 0 and 2, lane 1 channels 1 and 3, each scaled by 1/4, and lanes
\* from 2 on stay at equilibrium; with stereo off or a single lane every lane
\* of a frame carries all four channels.
C17_StereoRouting ==
  pc = "idle" /\ num_channels > 0 =>
    \A j \in 1..Len(data) :
      (j - 1) \div num_channels < FramesMixed =>
        data[j] * NumVoices
          = DataDen * SumOver(Reaching((j - 1) % num_channels),
                              (j - 1) \div num_channels)

\* A stereo frame of three lanes in which all four channels sound: lanes 0
\* and 1 differ and lane 2 is at equilibrium.
C17_Witness ==
  /\ pc = "idle" /\ synth.stereo /\ num_channels = 3
  /\ Len(data) >= 3 /\ FramesMixed >= 1
  /\ \A ch_idx \in Voices : tmp_log[ch_idx + 1][1] # 0
  /\ data[1] # EQUILIBRIUM /\ data[2] # EQUILIBRIUM /\ data[1] # data[2]
  /\ data[3] = EQUILIBRIUM

\* The same sound in mono: every lane of the frame carries it.
C17_WitnessMono ==
  /\ pc = "idle" /\ ~synth.stereo /\ num_channels = 2
  /\ Len(data) >= 2 /\ FramesMixed >= 1
  /\ \A ch_idx \in Voices : tmp_log[ch_idx + 1][1] # 0
  /\ data[1] # EQUILIBRIUM /\ data[1] = data[2]

\* The big-endian number in the n bytes of dat from addr on.
RECURSIVE BigEndian(_, _, _)
BigEndian(dat, addr, n) ==
  IF n = 0 THEN 0
  ELSE BigEndian(dat, addr, n - 1) * 256 + dat[addr + n]

\* The instrument the 14-byte record at addr describes.
Decoded(dat, addr) ==
  [is_one_shot |-> BigEndian(dat, addr, 2) = 1,
   loop_offset |-> BigEndian(dat, addr + 2, 2),
   sample_len |-> BigEndian(dat, addr + 4, 2),
   sample_addr |-> BigEndian(dat, addr + 6, 4),
   base_octave |-> BigEndian(dat, addr + 10, 4)]

\* The bank holds what a re-reading of the tables of the file gives for
\* num_sequences sequences and num_instruments instruments.
RoundTrip(num_sequences, num_instruments) ==
  /\ bank.data = file.data
  /\ Len(bank.sequences) = num_sequences
  /\ \A k \in 0..(num_sequences - 1) :
       bank.sequences[k + 1]
         = BigEndian(file.data, BigEndian(file.data, 0, 4) + 4 * k, 4)
  /\ Len(bank.instruments) = num_instruments
  /\ \A k \in 0..(num_instruments - 1) :
       bank.instruments[k + 1]
         = Decoded(file.data, BigEndian(file.data, 4, 4) + 14 * k)

\* C18: the bank built from a file has exactly the file's N_s sequence
\* offsets and N_i instruments, each decoded big-endian from its table entry,
\* the counts being the ones the caller supplies with the file, and the byte
\* image unchanged.
C18_ParseRoundTrip ==
  pc = "loaded" => RoundTrip(file.num_sequences, file.num_instruments)

\* What holds: the round trip of SoundBank::new of sound_player.rs with the
\* caller's counts, and of sound_model.rs with its own two counts.
LoadRoundTrip ==
  /\ pc = "loaded" /\ file.by = "sound_player"
       => RoundTrip(file.num_sequences, file.num_instruments)
  /\ pc = "loaded" /\ file.by = "sound_model"
       => RoundTrip(NUM_SEQUENCES, NUM_INSTRUMENTS)

LoadRoundTripWitness ==
  /\ pc = "loaded" /\ file.by = "sound_player"
  /\ file.num_sequences = 3 /\ file.num_instruments = 2
  /\ bank.instruments[1].is_one_shot /\ ~bank.instruments[2].is_one_shot
  /\ bank.instruments[1].sample_addr > 65535

RenderWritten == IsSome(clone) /\ Unwrap(clone).state = "written"

RenderSpinning == IsSome(clone) /\ Unwrap(clone).state = "spinning"

\* What record has produced when it writes: whole batches, ended by silence
\* or by the cap, and less than a batch beyond the cap.
WholeBatches ==
  RenderWritten =>
    LET r == Unwrap(clone)
        batch == BATCH_SIZE * RecordLanes(r.synth)
    IN  /\ r.len % batch = 0
        /\ r.len < max_samples(r.synth) => ~AnyActive(r.synth)
        /\ r.len < max_samples(r.synth) + batch

\* A pass of record's loop returns to the loop's condition with one batch
\* more: the sample count strictly grows towards the cap.
PassReturns ==
  (Rendering /\ clone' # clone /\ ~RenderWritten')
    => /\ Unwrap(clone').state = "render"
       /\ Unwrap(clone').len =
            Unwrap(clone).len + BATCH_SIZE * RecordLanes(Unwrap(clone).synth)
       /\ max_samples(Unwrap(clone').synth) = max_samples(Unwrap(clone).synth)

\* C19: the render loop of Synth::record terminates for every synth state, a
\* sequence that repeats forever included: every pass of the loop returns
\* with one 441-frame batch more, so the loop ends at silence or at the cap,
\* and what is written is a whole number of batches that exceeds the cap by
\* less than a batch.
C19_OfflineRenderTermination == [][PassReturns /\ WholeBatches']_vars

\* Whatever was started, a render never goes past the cap by a batch.
RenderBounded ==
  IsSome(clone) =>
    Unwrap(clone).len < max_samples(Unwrap(clone).synth)
                          + BATCH_SIZE * RecordLanes(Unwrap(clone).synth)

\* A render of a sequence that restarts after each note ends at the cap.
RenderCapped ==
  /\ RenderWritten
  /\ AnyActive(Unwrap(clone).synth)
  /\ Unwrap(clone).len > max_samples(Unwrap(clone).synth)

\* A call of Synth::route in WaveFile mode.
RouteToFile == synth.play_mode = "WaveFile" /\ routed' = routed + 1

\* A channel as the clone holds it after the hard stop and f: a copy of the
\* live channel l except that it plays nothing, or only what f started: a
\* sequence at its start, or an instrument at phase 0.
OnlyStarted(q, l, ch_idx) ==
  /\ q.samples_remaining = l.samples_remaining
  /\ q.options = l.options
  /\ \/ ~SoundChannelIsActive(q)
     \/ /\ ch_idx = 0
        /\ q.sample_channel.instr = None
        /\ \E seq \in 0..(NumSequences - 1) :
             q.sequence = Some(SequenceNew(bank.sequences[seq + 1]))
     \/ /\ ch_idx = 0
        /\ q.sequence = None
        /\ q.sample_channel.phase = 0
        /\ \E instr \in 1..NumInstruments :
             q.sample_channel.instr = Some(bank.instruments[instr])

\* The live side of the program: the synth the callback fills and the
\* stream's buffer and position.
live == << synth, data, tmp_log, pos, pc >>

RenderIsolated ==
  /\ RouteToFile =>
       /\ live' = live
       /\ IsSome(clone') /\ Unwrap(clone').len = 0
       /\ \A ch_idx \in 0..(NumVoices - 1) :
            OnlyStarted(Unwrap(clone').synth.channels[ch_idx],
                        synth.channels[ch_idx], ch_idx)
  /\ (clone' # clone /\ ~RouteToFile) => live' = live
  /\ live' # live => clone' = clone

\* C20: in WaveFile mode Synth::route applies f only to a clone whose channels
\* were all hard-stopped first, so the render holds only the voices f starts;
\* the live synth is exactly as before the call and is never changed by the
\* background render, and the render is never changed by later edits or
\* fills of the live synth.
C20_OfflineRenderIsolation == [][RenderIsolated]_vars

\* A render under way of an instrument alone, taken while the live synth was
\* playing a sequence on the same channel, with live fills going on.
C20_Witness ==
  /\ IsSome(clone) /\ Unwrap(clone).len > 0
  /\ Unwrap(clone).synth.channels[0].sequence = None
  /\ IsSome(synth.channels[0].sequence)
  /\ synth.play_mode = "WaveFile"
  /\ pos > 0

\* The callback is inside its critical section; the UI thread is inside its.
AudioInside == pc \in {"locked", "filled", "spinning"}

UiInside == ui_pc \in {"editing", "edited"}

\* The two never hold the mutex together, the callback holds it exactly while
\* it is inside, and a hold of the callback covers at most one fill.
Serialised ==
  /\ ~(AudioInside /\ UiInside)
  /\ (mutex = "audio") <=> AudioInside
  /\ (mutex = "ui") <=> UiInside
  /\ held <= 1
  /\ pc = "filled" => held = 1

\* The Synth changes only in the hands of the holder of the mutex, with the
\* other thread outside.
ChangedByHolder ==
  synth' # synth =>
    \/ mutex = "audio" /\ pc = "locked" /\ ~UiInside /\ ui_pc' = ui_pc
    \/ mutex = "ui" /\ ui_pc = "editing" /\ ~AudioInside /\ pc' = pc

\* C21: the callback's buffer fill and every UI edit of the Synth run under
\* the one mutex around the Synth and never interleave: an edit takes effect
\* wholly before or wholly after a fill, and the callback holds the mutex for
\* the duration of one fill only.
C21_LockSerialisation == [][Serialised /\ Serialised' /\ ChangedByHolder]_vars

\* The callback holds the mutex for a fill that follows an edit and an
\* earlier fill, while the UI thread waits for its next edit.
C21_Witness ==
  /\ pc = "filled" /\ mutex = "audio"
  /\ ui_pc = "idle" /\ routed = 1
  /\ pos > LockLen \div num_channels
  /\ AnyActive(synth)

\* A callback that returned, with the frames it rendered for each channel.
CallbackReturned ==
  pc = "idle" /\ pc' = "idle" /\ CallbackStep /\ tmp_log' # << >>

\* Channel ch_idx of the synth filled on its own, whatever the others hold.
FilledAlone(ch_idx) ==
  SoundChannelFill(synth.channels[ch_idx], sample_rate, Len(tmp_log'[1]))

\* C22: stepping and rendering one SoundChannel (opcode dispatch, effect
\* steps, a one-shot ending, a sequence ending) never changes the sequence,
\* sample-channel state, samples_remaining or options of another channel, and
\* never changes the bank: after a fill every channel is what filling it
\* alone makes of it.
C22_ChannelIsolation ==
  [][CallbackReturned =>
       /\ bank' = bank
       /\ \A ch_idx \in Voices :
            /\ synth'.channels[ch_idx] = FilledAlone(ch_idx).c
            /\ tmp_log'[ch_idx + 1] = FilledAlone(ch_idx).out]_vars

\* After a fill, channel 0 has ended its sequence and dropped its instrument
\* while channel 1 is in the middle of a note of its own sequence.
C22_Witness ==
  /\ pc = "idle" /\ routed = 1 /\ pos > 0
  /\ ~SoundChannelIsActive(synth.channels[0])
  /\ IsSome(synth.channels[1].sequence)
  /\ IsSome(synth.channels[1].sample_channel.instr)
  /\ synth.channels[1].samples_remaining # synth.channels[0].samples_remaining
       \/ synth.channels[1].sample_channel # synth.channels[0].sample_channel

\* A call of EffectState::step has just been made: the bends it was given,
\* their states before and after, and the loop flag it was given.
StepCalled == IsSome(fx) /\ fx' # fx

BendsGiven == Unwrap(fx).effect[Unwrap(fx').array]

StatesBefore == Unwrap(fx).es[Unwrap(fx').array]

StatesAfter == Unwrap(fx').es[Unwrap(fx').array]

LoopsGiven ==
  IF Unwrap(fx').array = "vibratos"
    THEN Unwrap(fx).es.vibrato_loops ELSE Unwrap(fx).es.tremolo_loops

\* Bend k fired in the call: its length_count went down by one, its
\* pause_count is back at bend.pause, its rate was returned and the states of
\* the bends after it are as they were.
FiredAt(k) ==
  /\ StatesBefore[k].length_count > 0
  /\ StatesAfter[k].length_count = StatesBefore[k].length_count - 1
  /\ StatesAfter[k].pause_count = BendsGiven[k].pause
  /\ Unwrap(fx').rate = BendsGiven[k].rate
  /\ \A j \in (k + 1)..Len(BendsGiven) : StatesAfter[j] = StatesBefore[j]

\* C23, as stated: exactly one bend fires in every call of EffectState::step.
C23_OneBendFires_AsStated ==
  [][StepCalled => \E k \in 1..Len(BendsGiven) : FiredAt(k)]_vars

\* The bends that are out of their pause with length left, before the call.
Ready == { i \in 1..Len(BendsGiven) :
             StatesBefore[i].pause_count = 0 /\ StatesBefore[i].length_count > 0 }

First(is) == CHOOSE i \in is : \A j \in is : i <= j

\* C23, amended: at most one bend fires per call, the first in array order
\* that is out of its pause with length left: the call decrements its
\* length_count, resets its pause_count to bend.pause, returns its rate and
\* leaves the states of all later bends untouched, after counting down the
\* pause of each earlier bend that was pausing.  When no bend is out of its
\* pause with length left, none fires and the call returns 0.
C23_OneBendFires ==
  [][StepCalled =>
       IF Ready # {}
         THEN /\ FiredAt(First(Ready))
              /\ \A j \in 1..(First(Ready) - 1) :
                   /\ StatesAfter[j].length_count = StatesBefore[j].length_count
                   /\ StatesAfter[j].pause_count
                        = IF StatesBefore[j].pause_count > 0
                            THEN StatesBefore[j].pause_count - 1 ELSE 0
         ELSE /\ Unwrap(fx').rate = 0
              /\ \A j \in 1..Len(BendsGiven) :
                   StatesAfter[j].length_count >= StatesBefore[j].length_count]_vars

\* The second vibrato bend has just fired, after the first one paused: the
\* first bend's pause is counted down and the third bend is as the note left
\* it.
C23_Witness ==
  /\ IsSome(fx) /\ Unwrap(fx).array = "vibratos" /\ Unwrap(fx).calls = 1
  /\ Unwrap(fx).rate = RateAt(2)
  /\ Unwrap(fx).effect.vibratos[1].pause = 1
  /\ Unwrap(fx).effect.vibratos[1].length > 0
  /\ Unwrap(fx).es.vibratos[1].pause_count = 0
  /\ Unwrap(fx).es.vibratos[2].length_count
       = Unwrap(fx).effect.vibratos[2].length - 1
  /\ Unwrap(fx).es.vibratos[3] = BendStateFrom(Unwrap(fx).effect.vibratos[3])
  /\ Unwrap(fx).effect.vibratos[3].length > 0

\* A bend state with its pause counted down by the call, if it was pausing.
Paused(state) ==
  [state EXCEPT !.pause_count = IF @ > 0 THEN @ - 1 ELSE 0]

\* C24: a call of EffectState::step that runs off the end of the bend array
\* without firing a bend returns 0; with loops on every bend state is then
\* reset to (bend.pause, bend.length) from its template, with loops off the
\* bend states keep what the call left them with; vol_adjust and
\* period_adjust are not cleared by the reset.
C24_EffectLoopReset ==
  [][StepCalled /\ Ready = {} =>
       /\ Unwrap(fx').rate = 0
       /\ \A i \in 1..Len(BendsGiven) :
            StatesAfter[i] = IF LoopsGiven THEN BendStateFrom(BendsGiven[i])
                             ELSE Paused(StatesBefore[i])
       /\ Unwrap(fx').es.vol_adjust = Unwrap(fx).es.vol_adjust
       /\ Unwrap(fx').es.period_adjust = Unwrap(fx).es.period_adjust]_vars

\* A looping vibrato array has run off its end after its first bend fired:
\* the bends are back at their templates and period_adjust still holds the
\* rate that was added.
C24_Witness ==
  /\ IsSome(fx) /\ Unwrap(fx).array = "vibratos" /\ Unwrap(fx).calls >= 2
  /\ Unwrap(fx).es.vibrato_loops
  /\ Unwrap(fx).rate = 0
  /\ Unwrap(fx).es.period_adjust = RateAt(1)
  /\ Unwrap(fx).effect.vibratos[1].length = 1
  /\ Unwrap(fx).effect.vibratos[2].pause = 1
  /\ \A i \in 1..3 :
       Unwrap(fx).es.vibratos[i] = BendStateFrom(Unwrap(fx).effect.vibratos[i])

\* The same with the loop flag off: the bends stay used up.
C24_WitnessNoLoop ==
  /\ IsSome(fx) /\ Unwrap(fx).array = "tremolos" /\ Unwrap(fx).calls >= 2
  /\ ~Unwrap(fx).es.tremolo_loops
  /\ Unwrap(fx).rate = 0
  /\ Unwrap(fx).es.vol_adjust = RateAt(1)
  /\ Unwrap(fx).effect.tremolos[1].length = 1
  /\ \A i \in 1..2 : Unwrap(fx).es.tremolos[i].length_count = 0

\* The dispatch loop is about to evaluate a Note opcode, and the evaluation
\* returns.
NoteDispatched ==
  /\ pc = "eval" /\ IsSome(sequence)
  /\ NextCode(Unwrap(sequence)) \in 0..127
  /\ pc' # "panicked"

\* The five bend states at (pause, length) of the templates of effect, both
\* accumulators at 0 and the loop flags of es.
Rewound(es, effect) ==
  [tremolos |-> [i \in 1..2 |-> [pause_count |-> effect.tremolos[i].pause,
                                 length_count |-> effect.tremolos[i].length]],
   vibratos |-> [i \in 1..3 |-> [pause_count |-> effect.vibratos[i].pause,
                                 length_count |-> effect.vibratos[i].length]],
   tremolo_loops |-> es.tremolo_loops,
   vibrato_loops |-> es.vibrato_loops,
   vol_adjust |-> 0,
   period_adjust |-> 0]

\* The sequence and the channel as the Note opcode code leaves them: the
\* address past the opcode, the effect state rewound, the pitch set and the
\* instrument triggered at phase 0.
NoteSeq(s) ==
  [s EXCEPT !.addr = @ + 1, !.effect_state = Rewound(@, s.effect)]

NoteCh(s, ch, code) ==
  [ch EXCEPT !.pitch = 4 * code + s.transposition,
             !.instr = Some(bank.instruments[s.instrument_idx + 1]),
             !.phase = 0]

\* What step_frame makes of that on the same tick, after the dispatch.
AfterNote(s, ch) ==
  StepEffects(TtlSet(NoteSeq(s)), NoteCh(s, ch, NextCode(s)), options)

\* C25: every Note opcode (code < 0x80) resets all five bend states to
\* (pause, length) of the selected effect's templates, sets vol_adjust and
\* period_adjust to 0 and leaves tremolo_loops and vibrato_loops as they were;
\* it sets channel.pitch = 4 * code + transposition, triggers
\* instruments[instrument_idx] at phase 0 and ends dispatch for the frame
\* (the effects are then stepped from that state on the same tick).
C25_NoteReset ==
  [][NoteDispatched =>
       /\ pc' = "loop"
       /\ last_eval'.res = "Done" /\ last_done'.op = "Note"
       /\ sequence' = Some(AfterNote(Unwrap(sequence), sample_channel).seq)
       /\ sample_channel' = AfterNote(Unwrap(sequence), sample_channel).ch
       /\ Unwrap(sequence').effect_state.tremolo_loops
            = Unwrap(sequence).effect_state.tremolo_loops
       /\ Unwrap(sequence').effect_state.vibrato_loops
            = Unwrap(sequence).effect_state.vibrato_loops]_vars

\* The second note of sequence 28 has just been dispatched, two ticks after
\* the first: the accumulators hold one step from the rewound bends (7 and
\* 3), not what the first note had summed up, and the tremolo loop flag is
\* still set.
C25_Witness ==
  /\ SeqRunning /\ pc = "loop"
  /\ last_done.op = "Note" /\ last_done.tick = seq_tick /\ seq_tick > 1
  /\ last_eval.code = 11
  /\ options.tremolo /\ options.vibrato
  /\ Unwrap(sequence).effect = EffectAt(2)
  /\ Unwrap(sequence).effect_state.tremolo_loops
  /\ ~Unwrap(sequence).effect_state.vibrato_loops
  /\ Unwrap(sequence).effect_state.period_adjust = 7
  /\ Unwrap(sequence).effect_state.vol_adjust = 3
  /\ sample_channel.pitch = 44
  /\ sample_channel.phase = 0

\* A step of SoundChannel::fill_buffer that renders samples, and how many.
Renders == pos' > pos
RenderedLen == pos' - pos

\* A step that ends a frame tick of the attached sequence and leaves it
\* attached: step_frame has returned true.
TickEnds ==
  /\ IsSome(sequence) /\ IsSome(sequence')
  /\ pc' = "loop"
  /\ seq_tick' > seq_tick \/ pc = "eval"

\* The deltas of es are on the channel, each if its option lets it through.
Pushed(ch, es) ==
  /\ options.tremolo => ch.pitch_adjust = es.period_adjust
  /\ options.vibrato => ch.volume_adjust = es.vol_adjust

\* The note dispatched at the frame boundary at the current sample has not
\* been rendered yet.
NoteAtBoundary ==
  /\ ui = "seq" /\ IsSome(sequence) /\ pc \in {"idle", "loop"}
  /\ last_done.op = "Note" /\ last_done.tick = seq_tick
  /\ last_eval.tick = seq_tick /\ last_eval.pos = pos
  /\ options.tremolo /\ options.vibrato

\* The channel of a note triggered by opcode code under sequence s, carrying
\* the deltas of s.
NoteWithDeltas(s, ch, code) ==
  [ch EXCEPT !.pitch = 4 * code + s.transposition,
             !.instr = Some(bank.instruments[s.instrument_idx + 1]),
             !.phase = 0,
             !.pitch_adjust = s.effect_state.period_adjust,
             !.volume_adjust = s.effect_state.vol_adjust]

\* C26: at each frame boundary inside SoundChannel::fill_buffer the samples
\* before the boundary are rendered with the channel as it was before the
\* tick; the tick then dispatches the opcodes and steps the effect runner, and
\* when it ends the new pitch_adjust / volume_adjust are on the channel; the
\* samples after the boundary are rendered from that state, so the first
\* samples of a newly triggered note carry that tick's effect deltas.
C26_TickOrdering ==
  [][/\ Renders =>
          out_log' = SampleFill(sample_channel, sample_rate, RenderedLen).out
     /\ TickEnds => Pushed(sample_channel', Unwrap(sequence').effect_state)
     /\ NoteAtBoundary /\ Renders =>
          out_log' = SampleFill(NoteWithDeltas(Unwrap(sequence), sample_channel,
                                               last_eval.code),
                                sample_rate, RenderedLen).out]_vars

\* The first note of sequence 28 was dispatched at a frame boundary and the
\* samples after the boundary are out: they were rendered at volume
\* 64 + 3 and with the period 7 up, the deltas of the tick that triggered
\* the note, and differ from the same note rendered without them.
C26_Witness ==
  /\ ui = "seq" /\ IsSome(sequence) /\ pc \in {"idle", "loop"}
  /\ last_done.op = "Note" /\ last_done.tick = seq_tick /\ seq_tick = 1
  /\ last_eval.code = 9
  /\ last_eval.pos < pos
  /\ tick_log[Len(tick_log)].at = last_eval.pos
  /\ Unwrap(sequence).effect = EffectAt(2)
  /\ sample_channel.volume_adjust = 3
  /\ sample_channel.pitch_adjust = 7
  /\ out_log # << >>
  /\ out_log[1] # 0
  /\ out_log[1] # SampleFill([sample_channel EXCEPT !.phase = 0,
                                                   !.volume_adjust = 0],
                             sample_rate, 1).out[1]

\* The user's stop: the step on which SoundChannel::stop runs.
StopCalled == ui # "stopped" /\ ui' = "stopped"

\* The voice of ch with its instrument marked one-shot and nothing else
\* touched.
MarkedOneShot(ch) ==
  IF ch.instr = None THEN ch
  ELSE [ch EXCEPT !.instr = Some([Unwrap(ch.instr) EXCEPT !.is_one_shot = TRUE])]

\* The phase of the stopped voice n output samples on, and the end of its
\* sample, in phase units.
PhaseAfter(n) ==
  sample_channel.phase
    + n * StepUnits(PeriodTick(sample_channel), sample_rate)

SampleEnd == 2 * Unwrap(sample_channel.instr).sample_len * PhaseDen

\* A stopped voice is rendered: it is dropped iff its phase reaches the end of
\* the sample within these samples; until then the phase only moves forward,
\* by a positive step, without wrapping.
StoppedVoiceRendered ==
  /\ StepUnits(PeriodTick(sample_channel), sample_rate) > 0
  /\ sample_channel'.instr = None <=> PhaseAfter(RenderedLen) >= SampleEnd
  /\ sample_channel'.instr # None =>
       /\ sample_channel'.instr = sample_channel.instr
       /\ sample_channel'.phase = PhaseAfter(RenderedLen)

\* C27: SoundChannel::stop detaches the sequence at once and marks the
\* channel's own copy of the instrument as one-shot, leaving the bank (and
\* the phase) as they were; the stopped voice then plays on to the end of its
\* sample, where it is dropped, and once dropped the channel stays inactive.
\* stop_hard leaves the channel without instrument and without sequence.
C27_SoftStop ==
  [][/\ StopCalled =>
          /\ sequence' = None
          /\ sample_channel' = MarkedOneShot(sample_channel)
          /\ bank' = bank
          /\ bank.instruments = SoundBankNew(Image, NumSequences,
                                             NumInstruments).instruments
     /\ ui = "stopped" /\ IsSome(sample_channel.instr) =>
          /\ Unwrap(sample_channel.instr).is_one_shot
          /\ Renders => StoppedVoiceRendered
     /\ ui = "stopped" =>
          /\ sequence = None /\ sequence' = None
          /\ sample_channel.instr = None => sample_channel'.instr = None
     /\ ~SoundChannelIsActive(
          SoundChannelStopHard([sample_channel |-> sample_channel,
                                sequence |-> sequence]))]_vars

\* Looping instrument 2 was started by play_instr and then stopped; the
\* latest fill still rendered a sounding sample of it and then dropped it at
\* the end of its sample: the channel is inactive, and the bank still has the
\* instrument as a looping one.
C27_Witness ==
  /\ ui = "stopped" /\ pc = "loop"
  /\ played = Some(bank.instruments[3])
  /\ ~bank.instruments[3].is_one_shot
  /\ sample_channel.instr = None /\ sequence = None
  /\ Len(out_log) >= 2
  /\ out_log[1] # 0
  /\ out_log[Len(out_log)] = 0
  /\ sample_channel.phase >= 2 * bank.instruments[3].sample_len * PhaseDen

\* The dispatch loop is about to evaluate a Rest opcode.
RestDispatched ==
  /\ pc = "eval" /\ IsSome(sequence)
  /\ NextCode(Unwrap(sequence)) = OpRest

\* The voice after stop_loop: dropped iff it is loaded with loop_offset 0.
AfterRest(instr) ==
  IF instr # None /\ Unwrap(instr).loop_offset = 0 THEN None ELSE instr

\* The sequence rests since the Rest dispatched on tick last_done.tick with
\* note_len = last_done.len.
Resting == ui = "seq" /\ last_done.op = "Rest"

\* C28: opcode 0x90 drops the channel's instrument iff one is loaded and its
\* loop_offset is 0, and ends the dispatch of its tick t with Done; with
\* note_len = N the ticks after t that dispatch nothing are t+1 .. t+N-1 and
\* the next opcode is dispatched on tick t+N.
C28_Rest ==
  [][/\ RestDispatched =>
          /\ pc' = "loop"
          /\ last_eval'.res = "Done" /\ last_done'.op = "Rest"
          /\ last_done'.tick = seq_tick
          /\ last_done'.len = Unwrap(sequence).note_len
          /\ sample_channel'.instr = AfterRest(sample_channel.instr)
     /\ Resting /\ seq_tick' = seq_tick + 1 =>
          /\ pc' # "panicked"
          /\ pc' = "eval" <=> seq_tick' = last_done.tick + last_done.len
          /\ pc' # "eval" => seq_tick' < last_done.tick + last_done.len]_vars

\* The same for the rests that find note_len >= 1.
RestHeld ==
  [][/\ RestDispatched /\ Unwrap(sequence).note_len >= 1 =>
          /\ pc' = "loop"
          /\ last_eval'.res = "Done" /\ last_done'.op = "Rest"
          /\ sample_channel'.instr = AfterRest(sample_channel.instr)
     /\ Resting /\ last_done.len >= 1 /\ seq_tick' = seq_tick + 1 =>
          /\ pc' # "panicked"
          /\ pc' = "eval" <=> seq_tick' = last_done.tick + last_done.len
          /\ pc' # "eval" => seq_tick' < last_done.tick + last_done.len]_vars

\* A rest of two frames has passed under instrument 2, which loops from
\* offset 2 and was left sounding: the next opcode is being dispatched.
RestKeepsLooping ==
  /\ Resting /\ pc = "eval" /\ last_done.len = 2
  /\ seq_tick = last_done.tick + 2
  /\ sample_channel.instr = Some(bank.instruments[3])

\* The same under instrument 0, which loops from offset 0 and was dropped.
RestDropsLoopAtZero ==
  /\ Resting /\ pc = "eval" /\ last_done.len = 2
  /\ seq_tick = last_done.tick + 2
  /\ sample_channel.instr = None
  /\ last_eval.code = OpRest

\* C29: write_wav renders one batch of BATCH_SIZE frames after another while
\* the source's stream has not ended and fewer than max_time_s *
\* SAMPLING_RATE * num_channels samples have been produced, and renders no
\* more once stream_done() returns true.
C29_WriteWav ==
  [][WavAt("render") =>
       /\ ~stream_done(Unwrap(wav).source)
            /\ Unwrap(wav).len < WavMaxSamples(Unwrap(wav))
          => /\ WavAt("render")'
             /\ Unwrap(wav').len
                  = Unwrap(wav).len + BATCH_SIZE * WavLanes(Unwrap(wav))
       /\ stream_done(Unwrap(wav).source) =>
            /\ WavAt("written")'
            /\ Unwrap(wav').len = Unwrap(wav).len]_vars

\* What write_wav does instead: it renders up to the cap a source whose
\* stream has ended, and nothing of one whose stream has not.
WavInverted ==
  [][WavAt("render") =>
       /\ ~stream_done(Unwrap(wav).source) =>
            WavAt("written")' /\ Unwrap(wav').len = 0
       /\ stream_done(Unwrap(wav).source)
            /\ Unwrap(wav).len < WavMaxSamples(Unwrap(wav))
          => /\ WavAt("render")'
             /\ Unwrap(wav').len
                  = Unwrap(wav).len + BATCH_SIZE * WavLanes(Unwrap(wav))]_vars

\* A file without a sample was written for a source with frames to go and
\* time allowed.
WavEmpty ==
  /\ WavAt("written")
  /\ Unwrap(wav).len = 0
  /\ Unwrap(wav).source.left = MaxStream
  /\ WavMaxSamples(Unwrap(wav)) > 0

\* C30: every call of Sequence::update returns after finitely many opcodes:
\* wherever the dispatch loop stands, repeated eval from there comes to a
\* result other than Cont and never back to a sequence and channel it has
\* already been in.
C30_DispatchTermination ==
  pc = "eval" =>
    Dispatch(Unwrap(sequence), sample_channel, options, {}).res # "Spin"

\* The dispatch loop stands where one more eval returns Cont and leaves the
\* sequence and the channel exactly as they are: it repeats forever.
DispatchStuck ==
  /\ pc = "eval"
  /\ last_eval.res = "Cont"
  /\ last_eval.at = Unwrap(sequence).addr
  /\ eval(Unwrap(sequence), sample_channel, options)
       = Res("Cont", Unwrap(sequence), sample_channel)

StuckInRestart == DispatchStuck /\ last_eval.code = OpRestart /\ options.repeats

StuckInJump == DispatchStuck /\ last_eval.code = OpJump

\* A For/Next pair with an empty body is left after its passes: the Stop
\* behind it ends the dispatch on the tick that started it.
EmptyLoopEnds ==
  /\ last_eval.code = OpStop /\ last_eval.res = "Stop"
  /\ last_eval.tick = 1
  /\ ByteAt(bank.data, last_eval.at - 1) = OpNext
  /\ ByteAt(bank.data, last_eval.at - 2) = 2
  /\ ByteAt(bank.data, last_eval.at - 3) = OpFor

\* C31: ttl never underflows: when step_frame decrements ttl it is at least 1
\* beforehand.  After a dispatch that ends with Done the ttl decremented is
\* the note_len just assigned to it, so every Note, Rest or repeats-off
\* Restart finds note_len >= 1; and the ttl of an attached sequence is never
\* below 0 (a ttl that wrapped is kept as a negative number).
C31_TtlNoUnderflow ==
  /\ pc = "eval" /\ eval(Unwrap(sequence), sample_channel, options).res = "Done"
       => eval(Unwrap(sequence), sample_channel, options).seq.note_len >= 1
  /\ IsSome(sequence) => Unwrap(sequence).ttl >= 0

\* An unchecked build went on after the decrement of a ttl of 0: the sequence
\* holds with a wrapped ttl after a note dispatched while note_len was 0.
TtlWrapped ==
  /\ SeqRunning /\ ~overflow_checks
  /\ last_done.op = "Note" /\ last_done.len = 0
  /\ Unwrap(sequence).ttl < 0

\* A checked build panicked on it.
TtlPanicked ==
  /\ pc = "panicked" /\ overflow_checks
  /\ last_eval.res = "Done" /\ last_eval.code = OpRest
  /\ IsSome(sequence) /\ Unwrap(sequence).note_len = 0

\* The bend states as a reset from the templates leaves them.
Templates ==
  [i \in 1..Len(BendsGiven) |-> [pause_count |-> BendsGiven[i].pause,
                                 length_count |-> BendsGiven[i].length]]

JustReset == StatesBefore = Templates

\* The bends with length in their template, and those of them without pause.
LongBends == { i \in 1..Len(BendsGiven) : BendsGiven[i].length > 0 }

OpenBends == { i \in LongBends : BendsGiven[i].pause = 0 }

\* The length the bend states have left, summed from bend i on.
RECURSIVE LengthLeft(_, _)
LengthLeft(states, i) ==
  IF i > Len(states) THEN 0
  ELSE states[i].length_count + LengthLeft(states, i + 1)

\* The call fired nothing and left the bend states as it found them.
CallInVain ==
  /\ \A k \in 1..Len(BendsGiven) : ~FiredAt(k)
  /\ StatesAfter = StatesBefore

\* C32, as stated: with the loop flag set and at least one bend with
\* length > 0, whatever its pause, a bend fires again within a bounded number
\* of calls after the bends have been reset from their templates: no call
\* made on the reset states goes by in vain, leaving the very states from
\* which the same call would be made again without end.
C32_LoopingKeepsFiring_AsStated ==
  [][StepCalled /\ LoopsGiven /\ JustReset /\ LongBends # {} => ~CallInVain]_vars

\* C32, amended: with the loop flag set, a call either fires a bend, which
\* takes one off the length the states have left, or resets the states from
\* the templates; the call made on the reset states fires the first bend in
\* array order whose template has length > 0 and pause 0, so that bend's rate
\* is returned again within (sum of the lengths) + 2 calls.  When every bend
\* with length > 0 has pause > 0, the call made on the reset states fires
\* nothing and resets them again: no bend fires from then on.
C32_LoopingKeepsFiring ==
  [][StepCalled /\ LoopsGiven =>
       /\ Ready # {} =>
            LengthLeft(StatesAfter, 1) = LengthLeft(StatesBefore, 1) - 1
       /\ Ready = {} => StatesAfter = Templates
       /\ JustReset /\ OpenBends # {} => FiredAt(First(OpenBends))
       /\ JustReset /\ OpenBends = {} =>
            /\ CallInVain
            /\ Unwrap(fx').rate = 0]_vars

\* The first vibrato bend (pause 0, length 1) of a looping array has fired,
\* the next call has run off the end and reset the states, and the bend has
\* fired again on the third call: period_adjust holds its rate twice.
C32_Witness ==
  /\ IsSome(fx) /\ Unwrap(fx).array = "vibratos" /\ Unwrap(fx).calls = 3
  /\ Unwrap(fx).es.vibrato_loops
  /\ Unwrap(fx).effect.vibratos[1] = Bend(RateAt(1), 0, 1)
  /\ Unwrap(fx).effect.vibratos[2].length = 0
  /\ Unwrap(fx).effect.vibratos[3].length = 0
  /\ Unwrap(fx).rate = RateAt(1)
  /\ Unwrap(fx).es.vibratos[1].length_count = 0
  /\ Unwrap(fx).es.period_adjust = 2 * RateAt(1)

\* A looping array whose only bend with length pauses first: three calls on,
\* the states are at the templates and nothing has been added.
LoopNeverFires ==
  /\ IsSome(fx) /\ Unwrap(fx).array = "vibratos" /\ Unwrap(fx).calls = 3
  /\ Unwrap(fx).es.vibrato_loops
  /\ Unwrap(fx).effect.vibratos[1] = Bend(RateAt(1), 1, 1)
  /\ Unwrap(fx).effect.vibratos[2].length = 0
  /\ Unwrap(fx).effect.vibratos[3].length = 0
  /\ Unwrap(fx).es.vibratos[1] = [pause_count |-> 1, length_count |-> 1]
  /\ Unwrap(fx).es.period_adjust = 0

\* The series of calls w has done what the single call one did: the same
\* outcome and, when they returned, the same channel, the same samples and the
\* frame ticks at the same offsets.
SameAsOne(w, one) ==
  /\ w.kind = one.kind
  /\ w.kind = "ok" =>
       /\ w.c = one.c
       /\ w.out = one.out
       /\ w.ticks = TickOffsets(w.c0.samples_remaining, w.total, 0)

\* C33: rendering N samples through SoundChannel::fill_buffer in any series
\* of calls (zero-length calls included) delivers the frame ticks at the same
\* sample offsets as one call of N samples and ends in the same channel state
\* (samples_remaining, sequence, sample channel); the chunks rendered cover
\* the N samples exactly once, in order, and samples_remaining never goes
\* below zero.
C33_SplitInvariance ==
  IsSome(split) /\ Unwrap(split).lens # << >> =>
    /\ SameAsOne(Unwrap(split),
                 SoundChannelFill(Unwrap(split).c0, sample_rate,
                                  Unwrap(split).total))
    /\ Unwrap(split).kind = "ok" =>
         /\ Len(Unwrap(split).out) = Unwrap(split).total
         /\ Unwrap(split).c.samples_remaining >= 1
         /\ Unwrap(split).c.samples_remaining <= samples_per_frame

\* Five samples of sequence 28 at two samples per frame were rendered by the
\* calls 2, 0, 1, 2, starting one sample before a frame boundary: the ticks
\* fell at offsets 1, 3 and 5, the first inside a call and the others where a
\* call ends; the sample before the first tick is silent and the note
\* dispatched there is sounding.
C33_Witness ==
  /\ IsSome(split) /\ Unwrap(split).kind = "ok"
  /\ sample_rate = 2 * FRAMES_PER_SECOND
  /\ Unwrap(split).lens = << 2, 0, 1, 2 >>
  /\ Unwrap(split).c0.samples_remaining = 1
  /\ Unwrap(split).ticks = << 1, 3, 5 >>
  /\ IsSome(Unwrap(split).c.sequence)
  /\ Unwrap(Unwrap(split).c.sequence).effect = EffectAt(2)
  /\ IsSome(Unwrap(split).c.sample_channel.instr)
  /\ Unwrap(split).out[1] = 0
  /\ Unwrap(split).out[4] # 0
  /\ Unwrap(split).c.samples_remaining = 2

====
